---- MODULE Spec2Model ----
(***************************************************************************)
(* A model of green-utils: the node-shared segment wrapper                 *)
(* (green/utils/mpi_shared.h, green/utils/mpi_utils.h), the communicator   *)
(* topology (mpi_utils.cpp) and the event profiler (green/utils/timing.h). *)
(***************************************************************************)
EXTENDS Integers, Sequences, FiniteSets, TLC

(***************************************************************************)
(* Bounds of the model.                                                    *)
(***************************************************************************)
MaxNodeSize == 3
MaxSize == 4
MaxHandles == 2
MaxWins == 2
MaxOps == 4
MaxTime == 2
\* processes of the global group, and nodes they may be placed on
MaxProcs == 3
MaxNodes == 2
\* processes that report together, and the start()/end() calls they make
\* before
MaxRanks == 2
MaxCalls == 4
\* device-group requests in a row, and devices per node they ask for
MaxRequests == 2
MaxPerNode == 2
\* collective calls that fail during one report
MaxErrors == 1
MaxFences == 2
MaxAccess == 2

(***************************************************************************)
(* Program constants.                                                      *)
(***************************************************************************)
\* MPI_WIN_NULL, the "no window" value of a handle
MPI_WIN_NULL == 0

\* the rank and size setup_communicators first gives a process outside the
\* cross-node group
Sentinel == -1

VARIABLES
  nodeSize,   \* mpi_context::node_size of the node this process lives on
  nodeRank,   \* mpi_context::node_rank of this process
  handles,    \* handles[h]: the shared_object this process holds in slot h
  nextWin,    \* the next window MPI_Win_allocate_shared hands out
  winAlloc,   \* winAlloc[w][r]: the elements node rank r allocated in window w
  freed,      \* freed[w]: how often this process called MPI_Win_free on w
  mem,        \* mem[w]: the node-shared buffer behind window w
  lastOp,     \* the operation that led to this state
  fpc,        \* fpc[p]: where node rank p stands in run_test_on_shared
  fenceCalls, \* fenceCalls[p]: the fence calls node rank p has issued
  pending,    \* pending[p]: stores of node rank p not yet visible to the others
  setIdx,     \* the index node rank 1 set to 15 (-1 before it did)
  requireOk,  \* no REQUIRE of the test has failed
  np,         \* the number of processes that own a timing object
  debug,      \* the build checks start() (NDEBUG is not defined)
  prof,       \* prof[p]: the timing object of process p
  now,        \* what MPI_Wtime() returns
  hist,       \* the calls made on the timing object of process 0, in order
  nops,       \* the number of calls made on timing objects
  record,     \* the calls hist keeps: "all", the "last" one, or "none"
  script,     \* the calls the running test has still to make
  global_size, \* mpi_context::global_size: the processes of the global group
  nodeOf,     \* nodeOf[p]: the shared-memory node global rank p runs on
  ctx,        \* ctx[p]: the mpi_context global rank p is constructing
  dev,        \* dev[p]: the device communicator variables of global rank p
  requests,   \* the arguments of the device-group requests made so far
  app,        \* app[p]: what the program of global rank p did with the context
  pstack,     \* pstack[p]: the calls of print(comm) open on rank p of comm
  pstat,      \* pstat[p]: how far rank p is with print(comm)
  clog,       \* clog[p]: the collective calls rank p has made on comm
  out         \* the lines rank 0 has written to std::cout

segVars == <<nodeSize, nodeRank, handles, nextWin, winAlloc, freed, mem, lastOp>>
fenceVars == <<fpc, fenceCalls, pending, setIdx, requireOk>>
profVars == <<np, debug, prof, now, hist, nops, record>>
vars == <<nodeSize, nodeRank, handles, nextWin, winAlloc, freed, mem, lastOp,
          fpc, fenceCalls, pending, setIdx, requireOk,
          np, debug, prof, now, hist, nops, record, script,
          global_size, nodeOf, ctx, dev, requests, app, pstack, pstat, clog, out>>
devVars == <<dev, requests>>
topoVars == <<global_size, nodeOf, ctx, dev, requests>>
printVars == <<pstack, pstat, clog, out>>
\* what the operations on segments leave alone
notShared == <<profVars, script, topoVars, app, printVars>>
\* what the operations on timing objects leave alone, but for the script
\* and the report
timingIdle == <<segVars, fenceVars, topoVars, app>>

NodeRanks == 0 .. (nodeSize - 1)
Slots == 1 .. MaxHandles
Wins == 1 .. MaxWins

RECURSIVE SumOver(_, _)
SumOver(f, S) ==
  IF S = {} THEN 0
  ELSE LET x == CHOOSE y \in S : TRUE IN f[x] + SumOver(f, S \ {x})

(***************************************************************************)
(* shared_object: the segment handle.                                      *)
(***************************************************************************)
\* a pointer into the buffer of window win, off elements after its start
nullptr == [win |-> MPI_WIN_NULL, off |-> 0]

\* a slot that holds no object (not constructed yet, or destroyed)
NoObject ==
  [live |-> FALSE, _size |-> 0, _ref |-> nullptr, _local_size |-> 0,
   _win |-> MPI_WIN_NULL, _object |-> [_size |-> 0, _data |-> nullptr]]

\* assign_ptr with the remainder test off by one (>= for >)
LocalSizeOffByOne(size, node_size, node_rank) ==
  (size \div node_size) + (IF (size % node_size) >= node_rank THEN 1 ELSE 0)

\* assign_ptr with the remainder given to the highest node ranks
LocalSizeRemainderLast(size, node_size, node_rank) ==
  (size \div node_size) + (IF (size % node_size) > (node_size - 1 - node_rank) THEN 1 ELSE 0)

\* assign_ptr: _local_size = _size / node_size, plus one for the first
\* (_size % node_size) node ranks
LocalSize(size, node_size, node_rank) ==
  (size \div node_size) + (IF (size % node_size) > node_rank THEN 1 ELSE 0)

\* MPI_Win_allocate_shared lays the ranks' parts out one after the other:
\* the part of node rank r starts after the parts of the ranks below it
SegmentBase(alloc, r) == SumOver(alloc, {q \in DOMAIN alloc : q < r})

\* a query of the calling rank's own part instead of node rank 0's
SharedQueryOwnRank(w, alloc, node_rank) ==
  [win |-> w, off |-> SegmentBase(alloc, node_rank)]

\* setup_mpi_shared_memory: MPI_Win_shared_query(shared_win, 0, ...) gives
\* every node rank the start of node rank 0's part
SharedQuery(w, alloc, node_rank) == [win |-> w, off |-> SegmentBase(alloc, 0)]

\* assign_ptr on every node rank: the sizes the ranks pass to
\* MPI_Win_allocate_shared
AssignPtrAlloc(size, node_size) ==
  [r \in 0 .. (node_size - 1) |-> LocalSize(size, node_size, r)]

\* the constructors: _object(obj), _size(obj.size()), then assign_ptr().
\* The allocation is collective over the node group: every node rank
\* computes its own local size and allocates that many elements.
Construct(h, size) ==
  /\ nextWin <= MaxWins
  /\ ~handles[h].live
  /\ LET w == nextWin
         alloc == AssignPtrAlloc(size, nodeSize)
         total == SumOver(alloc, NodeRanks)
     IN /\ handles' = [handles EXCEPT ![h] =
                 [live |-> TRUE, _size |-> size,
                  _ref |-> SharedQuery(w, alloc, nodeRank),
                  _local_size |-> alloc[nodeRank], _win |-> w,
                  _object |-> [_size |-> size,
                               _data |-> SharedQuery(w, alloc, nodeRank)]]]
        /\ winAlloc' = [winAlloc EXCEPT ![w] = alloc]
        /\ mem' = [mem EXCEPT ![w] = [i \in 0 .. (total - 1) |-> "uninit"]]
        /\ nextWin' = nextWin + 1
  /\ lastOp' = [op |-> "construct", d |-> h, s |-> h, size |-> size]
  /\ UNCHANGED <<nodeSize, nodeRank, freed>>

\* shared_object(shared_object&& rhs)
MoveConstruct(d, s) ==
  /\ d # s
  /\ ~handles[d].live
  /\ handles[s].live
  /\ handles' = [handles EXCEPT
       ![d] = [handles[s] EXCEPT !.live = TRUE],
       ![s]._win = MPI_WIN_NULL,
       ![s]._ref = nullptr]
  /\ lastOp' = [op |-> "move_construct", d |-> d, s |-> s, size |-> 0]
  /\ UNCHANGED <<nodeSize, nodeRank, nextWin, winAlloc, freed, mem>>

\* operator=(shared_object&& rhs): the fields are copied one by one, then
\* rhs._win and rhs._ref are reset; rhs may be *this
MoveAssign(d, s) ==
  /\ handles[d].live
  /\ handles[s].live
  /\ LET copied == [handles EXCEPT ![d] = handles[s]]
     IN handles' = [copied EXCEPT ![s]._win = MPI_WIN_NULL,
                                  ![s]._ref = nullptr]
  /\ lastOp' = [op |-> "move_assign", d |-> d, s |-> s, size |-> 0]
  /\ UNCHANGED <<nodeSize, nodeRank, nextWin, winAlloc, freed, mem>>

\* ~shared_object(): if (_win != MPI_WIN_NULL) MPI_Win_free(&_win)
Destroy(h) ==
  /\ handles[h].live
  /\ freed' = IF handles[h]._win # MPI_WIN_NULL
                THEN [freed EXCEPT ![handles[h]._win] = @ + 1]
                ELSE freed
  /\ handles' = [handles EXCEPT ![h] = NoObject]
  /\ lastOp' = [op |-> "destroy", d |-> h, s |-> h, size |-> 0]
  /\ UNCHANGED <<nodeSize, nodeRank, nextWin, winAlloc, mem>>

\* no timing object is in use
\* no mpi_context is under construction
TopoIdle ==
  /\ global_size = 0
  /\ nodeOf = <<>>
  /\ ctx = <<>>
  /\ dev = <<>>
  /\ requests = <<>>
  /\ app = <<>>

\* no print(comm) is running
PrintIdle ==
  /\ pstack = <<>>
  /\ pstat = <<>>
  /\ clog = <<>>
  /\ out = <<>>

ProfIdle ==
  /\ PrintIdle
  /\ np = 0
  /\ debug = TRUE
  /\ prof = <<>>
  /\ now = 0
  /\ hist = <<>>
  /\ nops = 0
  /\ record = "last"
  /\ script = <<>>

\* the test program has not been started
FenceIdle ==
  /\ fpc = [p \in NodeRanks |-> "idle"]
  /\ fenceCalls = [p \in NodeRanks |-> 0]
  /\ pending = [p \in NodeRanks |-> <<>>]
  /\ setIdx = -1
  /\ requireOk = TRUE

SegInit ==
  /\ nodeSize \in 1 .. MaxNodeSize
  /\ nodeRank \in 0 .. (nodeSize - 1)
  /\ handles = [h \in Slots |-> NoObject]
  /\ nextWin = 1
  /\ winAlloc = [w \in Wins |-> <<>>]
  /\ freed = [w \in Wins |-> 0]
  /\ mem = [w \in Wins |-> <<>>]
  /\ lastOp = [op |-> "none", d |-> 1, s |-> 1, size |-> 0]
  /\ FenceIdle
  /\ ProfIdle
  /\ TopoIdle

SegNext ==
  \/ \E h \in Slots, size \in 0 .. MaxSize :
       Construct(h, size) /\ UNCHANGED <<fenceVars, notShared>>
  \/ \E d \in Slots, s \in Slots : MoveConstruct(d, s) /\ UNCHANGED <<fenceVars, notShared>>
  \/ \E d \in Slots, s \in Slots : MoveAssign(d, s) /\ UNCHANGED <<fenceVars, notShared>>
  \/ \E h \in Slots : Destroy(h) /\ UNCHANGED <<fenceVars, notShared>>

SpecSeg == SegInit /\ [][SegNext]_vars

(***************************************************************************)
(* Access to the node-shared buffer and fence (run_test_on_shared).        *)
(***************************************************************************)
\* the window of the shared_object under test
TestWin == handles[1]._win

\* shared.object().data() on node rank p: the pointer the constructor on
\* rank p got from the window query
DataPtr(p) == SharedQuery(TestWin, winAlloc[TestWin], p)

\* the buffer element data()[i] denotes on node rank p
Address(p, i) == DataPtr(p).off + i

\* the value pending store number k downward of buffer st gives address a
RECURSIVE LatestStore(_, _, _)
LatestStore(st, k, a) ==
  IF k = 0 THEN "none"
  ELSE IF st[k].addr = a THEN st[k].val
  ELSE LatestStore(st, k - 1, a)

\* what node rank p reads at data()[i]: its own latest store, else the
\* value every process sees
Load(p, i) ==
  LET a == Address(p, i)
      own == LatestStore(pending[p], Len(pending[p]), a)
  IN IF a \notin DOMAIN mem[TestWin] THEN "out of bounds"
     ELSE IF own # "none" THEN own
     ELSE mem[TestWin][a]

\* a store of v to data()[i] on node rank p
Store(st, p, i, v) == Append(st, [addr |-> Address(p, i), val |-> v])

\* the buffer after store e became visible to every process
Commit(m, e) == IF e.addr \in DOMAIN m THEN [m EXCEPT ![e.addr] = e.val] ELSE m

RECURSIVE CommitAll(_, _)
CommitAll(m, st) == IF st = <<>> THEN m ELSE CommitAll(Commit(m, Head(st)), Tail(st))

RECURSIVE CommitRanks(_, _)
CommitRanks(m, R) ==
  IF R = {} THEN m
  ELSE LET q == CHOOSE x \in R : TRUE
       IN CommitRanks(CommitAll(m, pending[q]), R \ {q})

\* a store may become visible to the other processes at any time
Drain(p) ==
  /\ pending[p] # <<>>
  /\ mem' = [mem EXCEPT ![TestWin] = Commit(@, Head(pending[p]))]
  /\ pending' = [pending EXCEPT ![p] = Tail(@)]
  /\ UNCHANGED <<nodeSize, nodeRank, handles, nextWin, winAlloc, freed, lastOp,
                 fpc, fenceCalls, setIdx, requireOk, notShared>>

\* where the test goes on after fence call number k has returned
AfterFence(k) ==
  CASE k = 1 -> "fill" [] k = 2 -> "check_zero" [] k = 3 -> "set" [] OTHER -> "check_set"

\* a fence that returns without waiting for the other node ranks
FenceCompleteNoWait(p) == TRUE

\* MPI_Win_fence is collective over the window's group: call number k of
\* node rank p completes once every node rank has issued its call number k
FenceComplete(p) == \A q \in NodeRanks : fenceCalls[q] >= fenceCalls[p]

\* shared_object::fence, the call
FenceCall(p) ==
  /\ fpc[p] = "fence"
  /\ fenceCalls' = [fenceCalls EXCEPT ![p] = @ + 1]
  /\ fpc' = [fpc EXCEPT ![p] = "in_fence"]
  /\ UNCHANGED <<segVars, pending, setIdx, requireOk, notShared>>

\* shared_object::fence, the return: the stores issued before the matching
\* fence calls are visible to every process
FenceReturnTo(p, next) ==
  /\ fpc[p] = "in_fence"
  /\ FenceComplete(p)
  /\ mem' = [mem EXCEPT ![TestWin] = CommitRanks(@, NodeRanks)]
  /\ pending' = [q \in NodeRanks |-> <<>>]
  /\ fpc' = [fpc EXCEPT ![p] = next]
  /\ UNCHANGED <<nodeSize, nodeRank, handles, nextWin, winAlloc, freed, lastOp,
                 fenceCalls, setIdx, requireOk, notShared>>

\* the return of a fence call of run_test_on_shared
FenceReturn(p) == FenceReturnTo(p, AfterFence(fenceCalls[p]))

\* green::utils::shared_object shared(shared_data) on every node rank, then
\* the start of run_test_on_shared: the test ends here on a node of one
TestConstruct(size) ==
  /\ \A p \in NodeRanks : fpc[p] = "idle"
  /\ Construct(1, size)
  /\ fpc' = [p \in NodeRanks |-> IF nodeSize = 1 THEN "done" ELSE "fence"]
  /\ UNCHANGED <<fenceCalls, pending, setIdx, requireOk, notShared>>

RECURSIVE StoreAll(_, _, _, _)
StoreAll(st, p, n, v) ==
  IF n = 0 THEN st ELSE Store(StoreAll(st, p, n - 1, v), p, n - 1, v)

\* if (node_rank == 1) std::fill(data(), data() + size(), 0.0)
TestFill(p) ==
  /\ fpc[p] = "fill"
  /\ pending' = IF p = 1
                  THEN [pending EXCEPT ![p] = StoreAll(@, p, handles[1]._size, "0.0")]
                  ELSE pending
  /\ fpc' = [fpc EXCEPT ![p] = "fence"]
  /\ UNCHANGED <<segVars, fenceCalls, setIdx, requireOk, notShared>>

\* REQUIRE(std::all_of(data(), data() + size(), |x| < 1e-12))
TestCheckZero(p) ==
  /\ fpc[p] = "check_zero"
  /\ requireOk' = (requireOk /\ \A i \in 0 .. (handles[1]._size - 1) : Load(p, i) = "0.0")
  /\ fpc' = [fpc EXCEPT ![p] = "fence"]
  /\ UNCHANGED <<segVars, fenceCalls, pending, setIdx, notShared>>

\* if (node_rank == 1) data()[25] = 15, at any index of the buffer
TestSet(p) ==
  /\ fpc[p] = "set"
  /\ IF p = 1
       THEN \E i \in 0 .. (handles[1]._size - 1) :
              /\ pending' = [pending EXCEPT ![p] = Store(@, p, i, "15.0")]
              /\ setIdx' = i
       ELSE UNCHANGED <<pending, setIdx>>
  /\ fpc' = [fpc EXCEPT ![p] = "fence"]
  /\ UNCHANGED <<segVars, fenceCalls, requireOk, notShared>>

\* if (node_rank != 1) REQUIRE(|data()[25] - 15.0| < 1e-12)
TestCheckSet(p) ==
  /\ fpc[p] = "check_set"
  /\ requireOk' = (requireOk /\ (p # 1 => Load(p, setIdx) = "15.0"))
  /\ fpc' = [fpc EXCEPT ![p] = "done"]
  /\ UNCHANGED <<segVars, fenceCalls, pending, setIdx, notShared>>

FenceInit ==
  /\ nodeSize \in 1 .. MaxNodeSize
  /\ nodeRank \in 0 .. (nodeSize - 1)
  /\ handles = [h \in Slots |-> NoObject]
  /\ nextWin = 1
  /\ winAlloc = [w \in Wins |-> <<>>]
  /\ freed = [w \in Wins |-> 0]
  /\ mem = [w \in Wins |-> <<>>]
  /\ lastOp = [op |-> "none", d |-> 1, s |-> 1, size |-> 0]
  /\ FenceIdle
  /\ ProfIdle
  /\ TopoIdle

FenceNext ==
  \/ \E size \in 1 .. MaxSize : TestConstruct(size)
  \/ \E p \in NodeRanks : FenceCall(p)
  \/ \E p \in NodeRanks : FenceReturn(p)
  \/ \E p \in NodeRanks : Drain(p)
  \/ \E p \in NodeRanks : TestFill(p)
  \/ \E p \in NodeRanks : TestCheckZero(p)
  \/ \E p \in NodeRanks : TestSet(p)
  \/ \E p \in NodeRanks : TestCheckSet(p)

SpecFence == FenceInit /\ [][FenceNext]_vars

(***************************************************************************)
(* Node ranks that call fence any number of times: every node rank         *)
(* constructs the segment and then calls fence zero or more times before   *)
(* it goes on without the segment.                                         *)
(***************************************************************************)
\* green::utils::shared_object shared(size) on every node rank
CallersConstruct(size) ==
  /\ \A p \in NodeRanks : fpc[p] = "idle"
  /\ Construct(1, size)
  /\ fpc' = [p \in NodeRanks |-> "fence"]
  /\ UNCHANGED <<fenceCalls, pending, setIdx, requireOk, notShared>>

\* one more shared.fence()
CallerFence(p) ==
  /\ fenceCalls[p] < MaxFences
  /\ FenceCall(p)

\* the fence call returns to the caller, which may call fence again
CallerReturn(p) == FenceReturnTo(p, "fence")

\* the node rank makes no further fence call
CallerStops(p) ==
  /\ fpc[p] = "fence"
  /\ fpc' = [fpc EXCEPT ![p] = "done"]
  /\ UNCHANGED <<segVars, fenceCalls, pending, setIdx, requireOk, notShared>>

CallersNext ==
  \/ \E size \in 1 .. MaxSize : CallersConstruct(size)
  \/ \E p \in NodeRanks : CallerFence(p)
  \/ \E p \in NodeRanks : CallerReturn(p)
  \/ \E p \in NodeRanks : CallerStops(p)

SpecCallers == FenceInit /\ [][CallersNext]_vars

(***************************************************************************)
(* timing: the event profiler of one process.                              *)
(***************************************************************************)
Names == {"A", "B", "C"}

\* An event_t is named by its path of names from a root of _root_events;
\* the empty path stands for nullptr.
NoEvent == <<>>

\* event_t(start_, duration_): active is false, parent is nullptr and
\* accumulate is left uninitialized: the field holds the set of values the
\* flag may read as
NewEvent ==
  [start |-> 0, duration |-> 0, active |-> FALSE, accumulate |-> BOOLEAN,
   parent |-> NoEvent]

\* a timing object after construction
NewTiming == [events |-> <<>>, cur |-> NoEvent]

Exists(T, path) == path \in DOMAIN T.events

\* events with node path added (make_unique<event_t>(0, 0))
Insert(events, path) ==
  [q \in (DOMAIN events) \cup {path} |-> IF q \in DOMAIN events THEN events[q] ELSE NewEvent]

\* the keys of the children map of the event at path
ChildNames(events, path) ==
  {n \in Names : Append(path, n) \in DOMAIN events}

\* the keys of _root_events
RootNames(events) == {n \in Names : <<n>> \in DOMAIN events}

\* timing::add, when it replaces the root entry it finds
AddOpOverwrites(T, name) ==
  [T EXCEPT !.events = [q \in (DOMAIN T.events) \cup {<<name>>} |->
                          IF q = <<name>> THEN NewEvent ELSE T.events[q]]]

\* timing::add
AddOp(T, name) ==
  IF ~Exists(T, <<name>>)
    THEN [T EXCEPT !.events = Insert(T.events, <<name>>)]
    ELSE T

\* a debug check that looks for an active event of that name at any depth
StartThrowsAnyActive(T, name) ==
  debug /\ \E q \in DOMAIN T.events : T.events[q].active /\ q[Len(q)] = name

\* the debug check of timing::start: the ROOT event of that name is active
StartThrows(T, name) ==
  debug /\ Exists(T, <<name>>) /\ T.events[<<name>>].active

\* timing::start, past the debug check, when it does not link the child
\* event to the current one
StartOpNoParent(T, name, accumulate, time) ==
  LET at == IF T.cur # NoEvent THEN Append(T.cur, name) ELSE <<name>>
      ev == Insert(T.events, at)
  IN [events |-> [ev EXCEPT ![at].accumulate = {accumulate},
                            ![at].active = TRUE,
                            ![at].start = time],
      cur |-> at]

\* timing::start, past the debug check, when it always makes a new event_t
StartOpAlwaysNew(T, name, accumulate, time) ==
  LET at == IF T.cur # NoEvent THEN Append(T.cur, name) ELSE <<name>>
      ev == [q \in (DOMAIN T.events) \cup {at} |->
               IF q = at THEN NewEvent ELSE T.events[q]]
  IN [events |-> [ev EXCEPT ![at].parent = T.cur,
                            ![at].accumulate = {accumulate},
                            ![at].active = TRUE,
                            ![at].start = time],
      cur |-> at]

\* timing::start, past the debug check, when a start of the name of the
\* current event starts that event again
StartOpRestartsCurrent(T, name, accumulate, time) ==
  IF T.cur # NoEvent /\ T.cur[Len(T.cur)] = name
    THEN [T EXCEPT !.events[T.cur].accumulate = {accumulate},
                   !.events[T.cur].start = time]
  ELSE IF T.cur # NoEvent
    THEN LET child == Append(T.cur, name)
             ev == Insert(T.events, child)
         IN [events |-> [ev EXCEPT ![child].parent = T.cur,
                                   ![child].accumulate = {accumulate},
                                   ![child].active = TRUE,
                                   ![child].start = time],
             cur |-> child]
  ELSE LET root == <<name>>
           ev == Insert(T.events, root)
       IN [events |-> [ev EXCEPT ![root].accumulate = {accumulate},
                                 ![root].active = TRUE,
                                 ![root].start = time],
           cur |-> root]

\* timing::start, past the debug check
StartOp(T, name, accumulate, time) ==
  IF T.cur # NoEvent
    THEN LET child == Append(T.cur, name)
             ev == Insert(T.events, child)
         IN [events |-> [ev EXCEPT ![child].parent = T.cur,
                                   ![child].accumulate = {accumulate},
                                   ![child].active = TRUE,
                                   ![child].start = time],
             cur |-> child]
    ELSE LET root == <<name>>
             ev == Insert(T.events, root)
         IN [events |-> [ev EXCEPT ![root].accumulate = {accumulate},
                                   ![root].active = TRUE,
                                   ![root].start = time],
             cur |-> root]

\* the duration timing::end stores when it always overwrites
EndDurationOverwrite(e, time1, accumulate) == time1 - e.start

\* the duration timing::end stores
EndDuration(e, time1, accumulate) ==
  IF accumulate THEN e.duration + (time1 - e.start) ELSE time1 - e.start

\* timing::end with a current event, when it leaves no event current
EndOpToRoot(T, time1, accumulate) ==
  [events |-> [T.events EXCEPT
                 ![T.cur].duration = EndDuration(T.events[T.cur], time1, accumulate),
                 ![T.cur].active = FALSE],
   cur |-> NoEvent]

\* timing::end with a current event, when it leaves the ended event marked
\* active
EndOpStaysActive(T, time1, accumulate) ==
  [events |-> [T.events EXCEPT
                 ![T.cur].duration = EndDuration(T.events[T.cur], time1, accumulate)],
   cur |-> T.events[T.cur].parent]

\* timing::end with a current event; an uninitialized accumulate flag may
\* read as either value
EndOp(T, time1, accumulate) ==
  [events |-> [T.events EXCEPT
                 ![T.cur].duration = EndDuration(T.events[T.cur], time1, accumulate),
                 ![T.cur].active = FALSE],
   cur |-> T.events[T.cur].parent]

\* the events reset() clears when it clears all descendants
ResetTargetsDeep(T) ==
  {q \in DOMAIN T.events :
     Len(q) > Len(T.cur) /\ SubSeq(q, 1, Len(T.cur)) = T.cur}

\* the events reset() clears: the entries of _current_event->children
ResetTargets(T) ==
  {Append(T.cur, n) : n \in ChildNames(T.events, T.cur)}

\* timing::reset
ResetOp(T) ==
  IF T.cur = NoEvent THEN T
  ELSE [T EXCEPT !.events =
          [q \in DOMAIN T.events |->
             IF q \in ResetTargets(T)
               THEN [T.events[q] EXCEPT !.duration = 0, !.active = FALSE]
               ELSE T.events[q]]]

\* the event timing::event returns when it looks under the current event first
EventResultScoped(T, event_name) ==
  IF T.cur # NoEvent THEN Append(T.cur, event_name) ELSE <<event_name>>

\* the event timing::event returns
EventResult(T, event_name) ==
  IF Exists(T, <<event_name>>) THEN <<event_name>>
  ELSE IF T.cur # NoEvent THEN Append(T.cur, event_name)
  ELSE <<event_name>>

\* timing::event: what it does to the timing object
EventOp(T, event_name) ==
  IF Exists(T, <<event_name>>) THEN T
  ELSE IF T.cur # NoEvent
    THEN LET child == Append(T.cur, event_name)
         IN [T EXCEPT !.events = [Insert(T.events, child) EXCEPT ![child].parent = T.cur]]
  ELSE [T EXCEPT !.events = Insert(T.events, <<event_name>>)]

\* the calls made on the timing object of process 0: all of them where the
\* whole run is recorded, else the last one or none
Log(p, call) ==
  IF p # 0 \/ record = "none" THEN hist
  ELSE IF record = "all" THEN Append(hist, call)
  ELSE <<call>>

\* a call, with what it was given (time: what MPI_Wtime() returned), what it
\* returned (ret) and the timing object it was made on (before)
Call(op, name, flag, time, ret, before) ==
  [op |-> op, name |-> name, flag |-> flag, time |-> time, ret |-> ret,
   before |-> before]

Add(p, name) ==
  /\ prof' = [prof EXCEPT ![p] = AddOp(@, name)]
  /\ hist' = Log(p, Call("add", name, FALSE, now, NoEvent, prof[p]))
  /\ nops' = nops + 1
  /\ UNCHANGED <<np, debug, now, record>>

\* start(name, accumulate): throws wrong_event_state, or starts the event
Start(p, name, accumulate) ==
  /\ IF StartThrows(prof[p], name)
       THEN /\ prof' = prof
            /\ hist' = Log(p, Call("start_throws", name, accumulate, now, NoEvent, prof[p]))
       ELSE /\ prof' = [prof EXCEPT ![p] = StartOp(@, name, accumulate, now)]
            /\ hist' = Log(p, Call("start", name, accumulate, now, NoEvent, prof[p]))
  /\ nops' = nops + 1
  /\ UNCHANGED <<np, debug, now, record>>

End(p) ==
  /\ IF prof[p].cur = NoEvent
       THEN prof' = prof
       ELSE \E accumulate \in prof[p].events[prof[p].cur].accumulate :
              prof' = [prof EXCEPT ![p] = EndOp(@, now, accumulate)]
  /\ hist' = Log(p, Call("end", "", FALSE, now, NoEvent, prof[p]))
  /\ nops' = nops + 1
  /\ UNCHANGED <<np, debug, now, record>>

Reset(p) ==
  /\ prof' = [prof EXCEPT ![p] = ResetOp(@)]
  /\ hist' = Log(p, Call("reset", "", FALSE, now, NoEvent, prof[p]))
  /\ nops' = nops + 1
  /\ UNCHANGED <<np, debug, now, record>>

Event(p, event_name) ==
  /\ prof' = [prof EXCEPT ![p] = EventOp(@, event_name)]
  /\ hist' = Log(p, Call("event", event_name, FALSE, now,
                         EventResult(prof[p], event_name), prof[p]))
  /\ nops' = nops + 1
  /\ UNCHANGED <<np, debug, now, record>>

\* time passes (std::this_thread::sleep_for in the tests)
Tick ==
  /\ now < MaxTime
  /\ now' = now + 1
  /\ UNCHANGED <<np, debug, prof, hist, nops, record>>

\* the state outside the timing objects, not in use
NoSegments ==
  /\ nodeSize = 1
  /\ nodeRank = 0
  /\ handles = [h \in Slots |-> NoObject]
  /\ nextWin = 1
  /\ winAlloc = [w \in Wins |-> <<>>]
  /\ freed = [w \in Wins |-> 0]
  /\ mem = [w \in Wins |-> <<>>]
  /\ lastOp = [op |-> "none", d |-> 1, s |-> 1, size |-> 0]
  /\ FenceIdle

\* one process with a fresh timing object, in a debug or a release build
ProfInit ==
  /\ np = 1
  /\ debug \in BOOLEAN
  /\ prof = [p \in {0} |-> NewTiming]
  /\ now = 0
  /\ hist = <<>>
  /\ nops = 0
  /\ record = "last"
  /\ script = <<>>
  /\ NoSegments
  /\ TopoIdle
  /\ PrintIdle

notProf == <<timingIdle, script, printVars>>

ProfNext ==
  \/ \E name \in Names : nops < MaxOps /\ Add(0, name) /\ UNCHANGED notProf
  \/ \E name \in Names, accumulate \in BOOLEAN :
       nops < MaxOps /\ Start(0, name, accumulate) /\ UNCHANGED notProf
  \/ nops < MaxOps /\ End(0) /\ UNCHANGED notProf
  \/ nops < MaxOps /\ Reset(0) /\ UNCHANGED notProf
  \/ \E name \in Names : nops < MaxOps /\ Event(0, name) /\ UNCHANGED notProf
  \/ Tick /\ UNCHANGED notProf

\* any calls on one timing object, up to MaxOps of them
SpecProf == ProfInit /\ [][ProfNext]_vars

(***************************************************************************)
(* The call sequences of TEST_CASE("Timing"), with any names and flags.    *)
(***************************************************************************)
ToStart(name, accumulate) == [op |-> "start", name |-> name, flag |-> accumulate]
ToEnd == [op |-> "end", name |-> "", flag |-> FALSE]
ToReset == [op |-> "reset", name |-> "", flag |-> FALSE]
ToEvent(name) == [op |-> "event", name |-> name, flag |-> FALSE]
ToAdd(name) == [op |-> "add", name |-> name, flag |-> FALSE]

\* Test Nesting Events: an event started inside another one, both ended,
\* then both looked up
NestingCalls ==
  {<<ToStart(a, f), ToStart(b, g), ToEnd, ToEnd, ToEvent(a), ToEvent(b)>> :
     <<a, b, f, g>> \in {x \in Names \X Names \X BOOLEAN \X BOOLEAN : x[1] # x[2]}}

\* Test Accumulate: two start/end cycles of one event
AccumulateCalls ==
  {<<ToStart(a, f), ToEnd, ToStart(a, g), ToEnd, ToEvent(a)>> :
     <<a, f, g>> \in Names \X BOOLEAN \X BOOLEAN}

\* Test Reset: after another root event, children (one of them with a child
\* of its own) timed inside an event that is still open when reset() is
\* called; the event is then ended and reset() called once more
ResetCalls ==
  {<<ToStart(c, f), ToEnd,
     ToStart(r, f), ToStart(c, g), ToStart(c, g), ToEnd, ToEnd,
     ToStart(d, g), ToEnd, ToReset, ToEnd, ToReset>> :
     <<r, c, d, f, g>> \in
        {x \in Names \X Names \X Names \X BOOLEAN \X BOOLEAN :
           x[1] # x[2] /\ x[1] # x[3] /\ x[2] # x[3]}}

\* Test Start: an event started again while it is open, and again after
\* its end
StartCalls ==
  {<<ToStart(a, f), ToStart(a, g), ToEnd, ToStart(a, g)>> :
     <<a, f, g>> \in Names \X BOOLEAN \X BOOLEAN}

\* Test Nesting Events with its three levels (the inner two of one name)
\* and its additional end(), then the inner event and the root started again
RestartCalls ==
  {<<ToStart(a, f), ToStart(b, g), ToStart(b, g), ToEnd, ToEnd, ToEnd, ToEnd,
     ToStart(a, g), ToStart(b, f), ToEnd, ToEnd>> :
     <<a, b, f, g>> \in {x \in Names \X Names \X BOOLEAN \X BOOLEAN : x[1] # x[2]}}

\* the lookups at the end of Test Nesting Events: of a name not seen before,
\* with no event open and inside an open event, and of the open event
LookupCalls ==
  {<<ToEvent(c), ToStart(a, f), ToEvent(a), ToEvent(b), ToEvent(b), ToEvent(c),
     ToEnd, ToEvent(b)>> :
     <<a, b, c, f>> \in
        {x \in Names \X Names \X Names \X BOOLEAN :
           x[1] # x[2] /\ x[1] # x[3] /\ x[2] # x[3]}}

\* events registered with add(): one that was timed before, and one not
\* seen before, twice, inside an open event
AddCalls ==
  {<<ToStart(a, f), ToEnd, ToAdd(a), ToStart(b, f), ToAdd(a), ToAdd(c), ToAdd(c),
     ToEnd>> :
     <<a, b, c, f>> \in
        {x \in Names \X Names \X Names \X BOOLEAN :
           x[1] # x[2] /\ x[1] # x[3] /\ x[2] # x[3]}}

\* an open root event started again from inside a child, then the child
\* started again
RejectCalls ==
  {<<ToStart(a, f), ToStart(b, g), ToStart(a, g), ToStart(b, f), ToEnd, ToEnd>> :
     <<a, b, f, g>> \in {x \in Names \X Names \X BOOLEAN \X BOOLEAN : x[1] # x[2]}}

TestCalls ==
  NestingCalls \cup AccumulateCalls \cup ResetCalls \cup StartCalls
    \cup RestartCalls \cup LookupCalls \cup AddCalls \cup RejectCalls

TestStart ==
  /\ script # <<>>
  /\ Head(script).op = "start"
  /\ Start(0, Head(script).name, Head(script).flag)
  /\ script' = Tail(script)
  /\ UNCHANGED <<timingIdle, printVars>>

TestEnd ==
  /\ script # <<>>
  /\ Head(script).op = "end"
  /\ End(0)
  /\ script' = Tail(script)
  /\ UNCHANGED <<timingIdle, printVars>>

TestReset ==
  /\ script # <<>>
  /\ Head(script).op = "reset"
  /\ Reset(0)
  /\ script' = Tail(script)
  /\ UNCHANGED <<timingIdle, printVars>>

TestEvent ==
  /\ script # <<>>
  /\ Head(script).op = "event"
  /\ Event(0, Head(script).name)
  /\ script' = Tail(script)
  /\ UNCHANGED <<timingIdle, printVars>>

TestAdd ==
  /\ script # <<>>
  /\ Head(script).op = "add"
  /\ Add(0, Head(script).name)
  /\ script' = Tail(script)
  /\ UNCHANGED <<timingIdle, printVars>>

TimingInit ==
  /\ np = 1
  /\ debug \in BOOLEAN
  /\ prof = [p \in {0} |-> NewTiming]
  /\ now = 0
  /\ hist = <<>>
  /\ nops = 0
  /\ record = "all"
  /\ script \in TestCalls
  /\ NoSegments
  /\ TopoIdle
  /\ PrintIdle

TimingNext ==
  \/ TestStart
  \/ TestEnd
  \/ TestReset
  \/ TestEvent
  \/ TestAdd
  \/ Tick /\ UNCHANGED notProf

SpecTiming == TimingInit /\ [][TimingNext]_vars

(***************************************************************************)
(* mpi_context: the communicators setup_communicators builds from the      *)
(* global group. A communicator is the set of global ranks in its group.   *)
(***************************************************************************)
Procs == 0 .. (global_size - 1)

MPI_COMM_NULL == {}

\* the group MPI_Comm_split_type(MPI_COMM_TYPE_SHARED) puts process p in
SplitTypeShared(p) == {q \in Procs : nodeOf[q] = nodeOf[p]}

\* MPI_Comm_rank in group comm, whose ranks the split ordered by the key
\* global_rank
RankIn(comm, p) == Cardinality({q \in comm : q < p})

\* the color process q passes to the MPI_Comm_split of setup_communicators:
\* its node rank when that is 0, else MPI_UNDEFINED
SplitColor(q) ==
  IF RankIn(SplitTypeShared(q), q) = 0 THEN "0" ELSE "MPI_UNDEFINED"

\* the group MPI_Comm_split(global_comm, color, global_rank) puts p in
CommSplit(p) ==
  IF SplitColor(p) = "MPI_UNDEFINED" THEN MPI_COMM_NULL
  ELSE {q \in Procs : SplitColor(q) = SplitColor(p)}

\* the process with rank 0 in the node group of p
NodeRoot(p) == CHOOSE q \in SplitTypeShared(p) : RankIn(SplitTypeShared(p), q) = 0

\* what an MPI_Bcast leaves in the buffer when it has no effect
BcastKeepsOwn(p, field) == ctx[p][field]

\* what MPI_Bcast(&field, 1, MPI_INT, 0, intranode_comm) leaves in the
\* buffer of p: the value of the node group's rank 0
Bcast(p, field) == ctx[NodeRoot(p)][field]

\* the steps a process has behind it once it is inside the call named pc
Phase(pc) ==
  CASE pc = "start" -> 0
    [] pc = "MPI_Comm_split_type" -> 1
    [] pc = "MPI_Comm_split" -> 2
    [] pc = "MPI_Bcast internode_size" -> 3
    [] pc = "MPI_Bcast internode_rank" -> 4
    [] pc = "done" -> 5
    [] pc = "threw" -> 5

\* mpi_context(comm): global rank and size, then setup_communicators calls
\* MPI_Comm_split_type
CallSplitType(p) ==
  /\ ctx[p].pc = "start"
  /\ ctx' = [ctx EXCEPT ![p].pc = "MPI_Comm_split_type"]
  /\ UNCHANGED <<global_size, nodeOf, devVars>>

\* MPI_Comm_split_type returns once every process of the global group has
\* called it; node rank and size are read and MPI_Comm_split is called
SplitTypeReturn(p) ==
  /\ ctx[p].pc = "MPI_Comm_split_type"
  /\ \A q \in Procs : Phase(ctx[q].pc) >= 1
  /\ ctx' = [ctx EXCEPT ![p].node_comm = SplitTypeShared(p),
                        ![p].node_rank = RankIn(SplitTypeShared(p), p),
                        ![p].node_size = Cardinality(SplitTypeShared(p)),
                        ![p].pc = "MPI_Comm_split"]
  /\ UNCHANGED <<global_size, nodeOf, devVars>>

\* MPI_Comm_split returns once every process has called it: node rank 0
\* reads its cross-node rank and size (and global rank 0 checks its rank),
\* the others set the sentinels; then the first MPI_Bcast is called
SplitReturn(p) ==
  /\ ctx[p].pc = "MPI_Comm_split"
  /\ \A q \in Procs : Phase(ctx[q].pc) >= 2
  /\ IF ctx[p].node_rank = 0
       THEN LET comm == CommSplit(p)
                rank == RankIn(comm, p)
            IN ctx' = [ctx EXCEPT ![p].internode_comm = comm,
                                  ![p].internode_rank = rank,
                                  ![p].internode_size = Cardinality(comm),
                                  ![p].pc = IF p = 0 /\ rank # p
                                              THEN "threw"
                                              ELSE "MPI_Bcast internode_size"]
       ELSE ctx' = [ctx EXCEPT ![p].internode_comm = MPI_COMM_NULL,
                               ![p].internode_rank = Sentinel,
                               ![p].internode_size = Sentinel,
                               ![p].pc = "MPI_Bcast internode_size"]
  /\ UNCHANGED <<global_size, nodeOf, devVars>>

\* MPI_Bcast of internode_size over the node group returns: at once on its
\* root, on the others when the root has called it
BcastSizeReturn(p) ==
  /\ ctx[p].pc = "MPI_Bcast internode_size"
  /\ Phase(ctx[NodeRoot(p)].pc) >= 3
  /\ ctx[NodeRoot(p)].pc # "threw"
  /\ ctx' = [ctx EXCEPT ![p].internode_size = Bcast(p, "internode_size"),
                        ![p].pc = "MPI_Bcast internode_rank"]
  /\ UNCHANGED <<global_size, nodeOf, devVars>>

\* MPI_Bcast of internode_rank over the node group returns, and with it
\* setup_communicators and the constructor
BcastRankReturn(p) ==
  /\ ctx[p].pc = "MPI_Bcast internode_rank"
  /\ Phase(ctx[NodeRoot(p)].pc) >= 4
  /\ ctx[NodeRoot(p)].pc # "threw"
  /\ ctx' = [ctx EXCEPT ![p].internode_rank = Bcast(p, "internode_rank"),
                        ![p].pc = "done"]
  /\ UNCHANGED <<global_size, nodeOf, devVars>>

\* the members of an mpi_context before setup_communicators assigns them
\* (they are not read before)
NewContext ==
  [pc |-> "start", node_comm |-> MPI_COMM_NULL, node_rank |-> 0, node_size |-> 0,
   internode_comm |-> MPI_COMM_NULL, internode_rank |-> 0, internode_size |-> 0]

\* any number of processes placed on any nodes, each about to construct
\* its mpi_context from the global group
TopoInit ==
  /\ global_size \in 1 .. MaxProcs
  /\ nodeOf \in [Procs -> 1 .. MaxNodes]
  /\ ctx = [p \in Procs |-> NewContext]
  /\ dev = <<>>
  /\ requests = <<>>
  /\ app = <<>>
  /\ ProfIdle
  /\ NoSegments

notTopo == <<segVars, fenceVars, profVars, script, app, printVars>>

TopoNext ==
  \/ \E p \in Procs : CallSplitType(p) /\ UNCHANGED notTopo
  \/ \E p \in Procs : SplitTypeReturn(p) /\ UNCHANGED notTopo
  \/ \E p \in Procs : SplitReturn(p) /\ UNCHANGED notTopo
  \/ \E p \in Procs : BcastSizeReturn(p) /\ UNCHANGED notTopo
  \/ \E p \in Procs : BcastRankReturn(p) /\ UNCHANGED notTopo

SpecTopo == TopoInit /\ [][TopoNext]_vars

(***************************************************************************)
(* setup_devices_communicator: the device group, requested by every        *)
(* process of the global group with its node rank and the same counts.     *)
(***************************************************************************)
\* the mpi_context of p once setup_communicators has returned
BuiltContext(p) ==
  LET node == SplitTypeShared(p)
      root == NodeRoot(p)
  IN [pc |-> "done", node_comm |-> node, node_rank |-> RankIn(node, p),
      node_size |-> Cardinality(node),
      internode_comm |-> CommSplit(p),
      internode_rank |-> RankIn(CommSplit(root), root),
      internode_size |-> Cardinality(CommSplit(root))]

\* devices_comm, devices_rank and devices_size of the caller before any
\* request assigns them (they are not read before); req counts the requests
\* the process has made, before holds the three variables as they were when
\* it made the last one
NewDevices ==
  [pc |-> "idle", req |-> 0, devices_comm |-> MPI_COMM_NULL,
   devices_rank |-> 0, devices_size |-> 0,
   before |-> [devices_comm |-> MPI_COMM_NULL, devices_rank |-> 0, devices_size |-> 0]]

\* the processes that pass color 0 to the MPI_Comm_split of a request:
\* intranode_rank < devCount_per_node
DeviceMembers(devCount_per_node) ==
  {q \in Procs : ctx[q].node_rank < devCount_per_node}

\* the size check of setup_devices_communicator when it is left out
SizeMismatchIgnored(devices_size, devCount_total) == FALSE

\* the size check of setup_devices_communicator
SizeMismatch(devices_size, devCount_total) == devices_size # devCount_total

\* a process calls setup_devices_communicator with its output variables and
\* enters MPI_Comm_split; the first caller of a request fixes the counts
\* all processes pass
CallDevices(p) ==
  /\ dev[p].pc \in {"idle", "returned", "threw"}
  /\ dev[p].req < MaxRequests
  /\ LET k == dev[p].req + 1
     IN /\ IF Len(requests) >= k
             THEN UNCHANGED requests
             ELSE \E per_node \in 0 .. MaxPerNode, total \in 1 .. global_size + 1 :
                    requests' = Append(requests,
                                       [devCount_per_node |-> per_node,
                                        devCount_total |-> total])
        /\ dev' = [dev EXCEPT ![p].pc = "MPI_Comm_split",
                              ![p].req = k,
                              ![p].before = [devices_comm |-> dev[p].devices_comm,
                                             devices_rank |-> dev[p].devices_rank,
                                             devices_size |-> dev[p].devices_size]]
  /\ UNCHANGED <<global_size, nodeOf, ctx>>

\* a setup_devices_communicator in which the processes outside the device
\* group compare the size of the group with devCount_total as well
DevicesReturnChecksEverywhere(p) ==
  /\ dev[p].pc = "MPI_Comm_split"
  /\ \A q \in Procs : dev[q].req >= dev[p].req
  /\ LET r == requests[dev[p].req]
         members == DeviceMembers(r.devCount_per_node)
         pc == IF SizeMismatch(Cardinality(members), r.devCount_total)
                 THEN "threw" ELSE "returned"
     IN IF ctx[p].node_rank < r.devCount_per_node
          THEN dev' = [dev EXCEPT ![p].devices_comm = members,
                                  ![p].devices_rank = RankIn(members, p),
                                  ![p].devices_size = Cardinality(members),
                                  ![p].pc = pc]
          ELSE dev' = [dev EXCEPT ![p].devices_comm = MPI_COMM_NULL,
                                  ![p].devices_rank = Sentinel,
                                  ![p].devices_size = Sentinel,
                                  ![p].pc = pc]
  /\ UNCHANGED <<global_size, nodeOf, ctx, requests>>

\* MPI_Comm_split returns once every process has called it: a member reads
\* its rank and the size and throws mpi_communicator_error if the size is
\* not devCount_total; the others set rank and size to -1
DevicesReturn(p) ==
  /\ dev[p].pc = "MPI_Comm_split"
  /\ \A q \in Procs : dev[q].req >= dev[p].req
  /\ LET r == requests[dev[p].req]
         members == DeviceMembers(r.devCount_per_node)
     IN IF ctx[p].node_rank < r.devCount_per_node
          THEN dev' = [dev EXCEPT ![p].devices_comm = members,
                                  ![p].devices_rank = RankIn(members, p),
                                  ![p].devices_size = Cardinality(members),
                                  ![p].pc = IF SizeMismatch(Cardinality(members),
                                                            r.devCount_total)
                                              THEN "threw" ELSE "returned"]
          ELSE dev' = [dev EXCEPT ![p].devices_comm = MPI_COMM_NULL,
                                  ![p].devices_rank = Sentinel,
                                  ![p].devices_size = Sentinel,
                                  ![p].pc = "returned"]
  /\ UNCHANGED <<global_size, nodeOf, ctx, requests>>

\* any number of processes placed on any nodes, their node and cross-node
\* groups built
DevicesInit ==
  /\ global_size \in 1 .. MaxProcs
  /\ nodeOf \in [Procs -> 1 .. MaxNodes]
  /\ ctx = [p \in Procs |-> BuiltContext(p)]
  /\ dev = [p \in Procs |-> NewDevices]
  /\ requests = <<>>
  /\ app = <<>>
  /\ ProfIdle
  /\ NoSegments

DevicesNext ==
  \/ \E p \in Procs : CallDevices(p) /\ UNCHANGED notTopo
  \/ \E p \in Procs : DevicesReturn(p) /\ UNCHANGED notTopo

SpecDevices == DevicesInit /\ [][DevicesNext]_vars

(***************************************************************************)
(* The program's use of the process-wide context: every process reads      *)
(* mpi_context::context() any number of times and constructs a segment,    *)
(* whose constructor copies the context and calls assign_ptr.              *)
(***************************************************************************)
\* the members of an mpi_context a caller reads
View(c) ==
  [node_comm |-> c.node_comm, node_rank |-> c.node_rank, node_size |-> c.node_size,
   internode_comm |-> c.internode_comm, internode_rank |-> c.internode_rank,
   internode_size |-> c.internode_size]

\* a context() that constructs the instance on every call
InitializedNever(p) == FALSE

\* the function-local static instance of context() has been constructed
Initialized(p) == ctx[p].pc = "done"

\* a program that has not touched the context yet
NewProgram ==
  [pc |-> "run", builds |-> 0, reads |-> 0, seen |-> {}, _cntx |-> {},
   _win |-> MPI_WIN_NULL, _ref |-> "nullptr", segs |-> 0]

\* context() hands out the instance c: the caller reads it (use "context"),
\* or the constructor of shared_object copies it into _cntx and calls
\* assign_ptr (use "shared_object")
Got(a, c, use) ==
  IF use = "context"
    THEN [a EXCEPT !.pc = "run", !.reads = @ + 1, !.seen = @ \cup {View(c)}]
    ELSE [a EXCEPT !.pc = "MPI_Win_allocate_shared", !.reads = @ + 1,
                   !.seen = @ \cup {View(c)}, !._cntx = {View(c)}]

\* mpi_context::context(): the first call constructs the instance from
\* MPI_COMM_WORLD, a later one returns it at once
ContextCall(p, use) ==
  /\ app[p].pc = "run"
  /\ IF Initialized(p)
       THEN /\ app' = [app EXCEPT ![p] = Got(@, ctx[p], use)]
            /\ UNCHANGED ctx
       ELSE /\ ctx' = [ctx EXCEPT ![p] = [NewContext EXCEPT !.pc = "MPI_Comm_split_type"]]
            /\ app' = [app EXCEPT ![p].pc = use, ![p].builds = @ + 1]
  /\ UNCHANGED <<global_size, nodeOf, devVars>>

\* the call of context() that constructed the instance returns
ContextReturn(p) ==
  /\ app[p].pc \in {"context", "shared_object"}
  /\ ctx[p].pc = "done"
  /\ app' = [app EXCEPT ![p] = Got(@, ctx[p], app[p].pc)]
  /\ UNCHANGED topoVars

\* the program reads mpi_context::context()
Read(p) ==
  /\ app[p].reads < MaxAccess
  /\ ContextCall(p, "context")

\* the program constructs its shared_object
NewSegment(p) ==
  /\ app[p]._cntx = {}
  /\ ContextCall(p, "shared_object")

\* MPI_Win_allocate_shared returns; the call is collective but need not
\* wait for the other processes of the node group
AllocReturn(p) ==
  /\ app[p].pc = "MPI_Win_allocate_shared"
  /\ app' = [app EXCEPT ![p].pc = "MPI_Win_shared_query", ![p]._win = 1]
  /\ UNCHANGED topoVars

\* MPI_Win_shared_query returns the start of the buffer; MPI_Barrier is
\* called
QueryReturn(p) ==
  /\ app[p].pc = "MPI_Win_shared_query"
  /\ app' = [app EXCEPT ![p].pc = "MPI_Barrier", ![p]._ref = "buffer"]
  /\ UNCHANGED topoVars

\* the node group of the context copy the segment of p holds
CopyNodeComm(p) == (CHOOSE c \in app[p]._cntx : TRUE).node_comm

\* a barrier that lets a process through at once
BarrierCompleteNoWait(p) == TRUE

\* MPI_Barrier(context.node_comm) completes once every process of the node
\* group has called it
BarrierComplete(p) ==
  \A q \in CopyNodeComm(p) : app[q].pc = "MPI_Barrier" \/ app[q].segs > 0

\* MPI_Barrier returns, and with it setup_mpi_shared_memory, assign_ptr and
\* the constructor
BarrierReturn(p) ==
  /\ app[p].pc = "MPI_Barrier"
  /\ BarrierComplete(p)
  /\ app' = [app EXCEPT ![p].pc = "run", ![p].segs = @ + 1]
  /\ UNCHANGED topoVars

ContextInit ==
  /\ global_size \in 1 .. MaxProcs
  /\ nodeOf \in [Procs -> 1 .. MaxNodes]
  /\ ctx = [p \in Procs |-> NewContext]
  /\ dev = <<>>
  /\ requests = <<>>
  /\ app = [p \in Procs |-> NewProgram]
  /\ ProfIdle
  /\ NoSegments

notContext == <<segVars, fenceVars, profVars, script, printVars>>

ContextNext ==
  \/ \E p \in Procs : Read(p) /\ UNCHANGED notContext
  \/ \E p \in Procs : NewSegment(p) /\ UNCHANGED notContext
  \/ \E p \in Procs : ContextReturn(p) /\ UNCHANGED notContext
  \/ \E p \in Procs : SplitTypeReturn(p) /\ UNCHANGED notTopo
  \/ \E p \in Procs : SplitReturn(p) /\ UNCHANGED notTopo
  \/ \E p \in Procs : BcastSizeReturn(p) /\ UNCHANGED notTopo
  \/ \E p \in Procs : BcastRankReturn(p) /\ UNCHANGED notTopo
  \/ \E p \in Procs : AllocReturn(p) /\ UNCHANGED notContext
  \/ \E p \in Procs : QueryReturn(p) /\ UNCHANGED notContext
  \/ \E p \in Procs : BarrierReturn(p) /\ UNCHANGED notContext

SpecContext == ContextInit /\ [][ContextNext]_vars

(***************************************************************************)
(* The standalone cross-node split: every process of the global group      *)
(* calls setup_internode_communicator(global_comm, global_rank,            *)
(* intranode_rank, ...). The test passes its rank in the global group and  *)
(* the node rank setup_intranode_communicator gave it; the function takes  *)
(* any arguments.                                                          *)
(***************************************************************************)
\* the variables of a caller before the call
NewCall ==
  [pc |-> "start", global_rank |-> 0, intranode_rank |-> 0,
   internode_comm |-> MPI_COMM_NULL, internode_rank |-> 0, internode_size |-> 0]

\* MPI_Comm_split that puts every process of the global group in one group
InternodeGroupOfAll(p) == Procs

\* the group MPI_Comm_split(global_comm, color, global_rank) puts p in: the
\* callers that passed color intranode_rank = 0, none for MPI_UNDEFINED
InternodeGroup(p) ==
  IF ctx[p].intranode_rank = 0
    THEN {q \in Procs : ctx[q].intranode_rank = 0}
    ELSE MPI_COMM_NULL

\* MPI_Comm_rank in the new group: MPI_Comm_split orders by the key
\* global_rank and breaks ties by the rank in global_comm
RankByKey(comm, p) ==
  Cardinality({q \in comm : \/ ctx[q].global_rank < ctx[p].global_rank
                            \/ /\ ctx[q].global_rank = ctx[p].global_rank
                               /\ q < p})

\* a function without the root-rank check
RootMismatchUnchecked(global_rank, internode_rank) == FALSE

\* if (!global_rank && internode_rank != global_rank) throw
RootMismatch(global_rank, internode_rank) ==
  global_rank = 0 /\ internode_rank # global_rank

\* setup_internode_communicator is called and calls MPI_Comm_split
InternodeCall(p, global_rank, intranode_rank) ==
  /\ ctx[p].pc = "start"
  /\ ctx' = [ctx EXCEPT ![p].global_rank = global_rank,
                        ![p].intranode_rank = intranode_rank,
                        ![p].pc = "MPI_Comm_split"]
  /\ UNCHANGED <<global_size, nodeOf, devVars>>

\* MPI_Comm_split returns once every process has called it; a caller with
\* node rank 0 reads rank and size and checks the root rank, the others
\* set the sentinels
InternodeReturn(p) ==
  /\ ctx[p].pc = "MPI_Comm_split"
  /\ \A q \in Procs : ctx[q].pc # "start"
  /\ IF ctx[p].intranode_rank = 0
       THEN LET comm == InternodeGroup(p)
                rank == RankByKey(comm, p)
            IN ctx' = [ctx EXCEPT ![p].internode_comm = comm,
                                  ![p].internode_rank = rank,
                                  ![p].internode_size = Cardinality(comm),
                                  ![p].pc = IF RootMismatch(ctx[p].global_rank, rank)
                                              THEN "threw" ELSE "done"]
       ELSE ctx' = [ctx EXCEPT ![p].internode_comm = MPI_COMM_NULL,
                               ![p].internode_rank = Sentinel,
                               ![p].internode_size = Sentinel,
                               ![p].pc = "done"]
  /\ UNCHANGED <<global_size, nodeOf, devVars>>

SplitInit ==
  /\ global_size \in 1 .. MaxProcs
  /\ nodeOf \in [Procs -> 1 .. MaxNodes]
  /\ ctx = [p \in Procs |-> NewCall]
  /\ dev = <<>>
  /\ requests = <<>>
  /\ app = <<>>
  /\ ProfIdle
  /\ NoSegments

SplitNext ==
  \/ \E p \in Procs, g \in Procs, r \in Procs : InternodeCall(p, g, r) /\ UNCHANGED notTopo
  \/ \E p \in Procs : InternodeReturn(p) /\ UNCHANGED notTopo

SpecSplit == SplitInit /\ [][SplitNext]_vars

(***************************************************************************)
(* The construction of mpi_context when a call of the MPI library fails    *)
(* and returns an error code (the error handler of the communicator is     *)
(* MPI_ERRORS_RETURN). At most MaxErrors calls fail.                       *)
(***************************************************************************)
NewFailing ==
  [pc |-> "start", node_comm |-> MPI_COMM_NULL, node_rank |-> 0, node_size |-> 0,
   internode_comm |-> MPI_COMM_NULL, internode_rank |-> 0, internode_size |-> 0,
   failed |-> "none"]

\* a communicator handle that no successful call has assigned
InvalidComm == {Sentinel}

\* what an int reads as that no successful call has assigned
Unassigned == {0, 1}

MayFail == Cardinality({q \in Procs : ctx[q].failed # "none"}) < MaxErrors

\* MPI_Comm_split_type returns an error code: setup_communicators throws
\* mpi_communicator_error
SplitTypeFails(p) ==
  /\ ctx[p].pc = "MPI_Comm_split_type"
  /\ MayFail
  /\ ctx' = [ctx EXCEPT ![p].pc = "threw", ![p].failed = "MPI_Comm_split_type"]
  /\ UNCHANGED <<global_size, nodeOf, devVars>>

\* MPI_Comm_split returns an error code, which setup_communicators drops:
\* the handle is not assigned, MPI_Comm_rank and MPI_Comm_size on it assign
\* nothing either, and the construction goes on with what the variables hold
SplitFails(p) ==
  /\ ctx[p].pc = "MPI_Comm_split"
  /\ MayFail
  /\ IF ctx[p].node_rank = 0
       THEN \E rank \in Unassigned, size \in Unassigned :
              ctx' = [ctx EXCEPT ![p].internode_comm = InvalidComm,
                                 ![p].internode_rank = rank,
                                 ![p].internode_size = size,
                                 ![p].failed = "MPI_Comm_split",
                                 ![p].pc = IF p = 0 /\ rank # p
                                             THEN "threw"
                                             ELSE "MPI_Bcast internode_size"]
       ELSE ctx' = [ctx EXCEPT ![p].internode_comm = InvalidComm,
                               ![p].internode_rank = Sentinel,
                               ![p].internode_size = Sentinel,
                               ![p].failed = "MPI_Comm_split",
                               ![p].pc = "MPI_Bcast internode_size"]
  /\ UNCHANGED <<global_size, nodeOf, devVars>>

FailingInit ==
  /\ global_size \in 1 .. MaxProcs
  /\ nodeOf \in [Procs -> 1 .. MaxNodes]
  /\ ctx = [p \in Procs |-> NewFailing]
  /\ dev = <<>>
  /\ requests = <<>>
  /\ app = <<>>
  /\ ProfIdle
  /\ NoSegments

FailingNext ==
  \/ \E p \in Procs : CallSplitType(p) /\ UNCHANGED notTopo
  \/ \E p \in Procs : SplitTypeReturn(p) /\ UNCHANGED notTopo
  \/ \E p \in Procs : SplitReturn(p) /\ UNCHANGED notTopo
  \/ \E p \in Procs : BcastSizeReturn(p) /\ UNCHANGED notTopo
  \/ \E p \in Procs : BcastRankReturn(p) /\ UNCHANGED notTopo
  \/ \E p \in Procs : SplitTypeFails(p) /\ UNCHANGED notTopo
  \/ \E p \in Procs : SplitFails(p) /\ UNCHANGED notTopo

SpecFailing == FailingInit /\ [][FailingNext]_vars

(***************************************************************************)
(* timing::print(MPI_Comm): the report over a communicator. Rank 0 of the  *)
(* communicator is the authority: it sends names, the others receive them. *)
(* Each process runs sync_events, then print's loop over its root events   *)
(* and print_event on each event it visits; pstack[p] holds its open calls *)
(* (the innermost last) and clog[p] the collective calls it has made. The  *)
(* k-th collective call of a process matches the k-th of every other. A    *)
(* call returns as soon as the data it delivers is there: MPI_Bcast at     *)
(* once on rank 0 and on the others once rank 0 has made the call,         *)
(* MPI_Reduce at once on the others and on rank 0 once all have made it.   *)
(***************************************************************************)
Ranks == 0 .. (np - 1)

\* the names the processes use before they report
ReportNames == {"A", "B"}

\* the order std::map<std::string, ...> keeps _root_events in
NameOrder == <<"A", "B", "C">>
FirstName(S) ==
  LET i == CHOOSE j \in 1..Len(NameOrder) :
             NameOrder[j] \in S /\ \A k \in 1..(j - 1) : NameOrder[k] \notin S
  IN NameOrder[i]

\* name.length()
NameLength(name) == IF name = "" THEN 0 ELSE 1

\* one open call: of print (fn "print"), sync_events on the map of roots
\* (path <<>>) or on the children of the event at path (fn "sync"), or
\* print_event on the event at path (fn "print_event"); pc names the
\* collective call it makes next, i is the loop counter, n is num_events,
\* it holds the names rank 0's iterator has not passed yet
Frame(fn, path, pc) ==
  [fn |-> fn, path |-> path, pc |-> pc, i |-> 0, n |-> 0, it |-> {},
   name |-> "", max |-> 0, min |-> 0]

\* the keys of the map a call loops over
Keys(f, events) ==
  IF f.path = <<>> THEN RootNames(events) ELSE ChildNames(events, f.path)

\* the bound of the loop of a call: num_events in sync_events, the size of
\* the local map in print and print_event
LoopBound(f, events) ==
  IF f.fn = "sync" THEN f.n ELSE Cardinality(Keys(f, events))

Pop(stack) == SubSeq(stack, 1, Len(stack) - 1)
Top(stack) == stack[Len(stack)]
SetTop(stack, f) == [stack EXCEPT ![Len(stack)] = f]

\* if (!id), if (!rank), when every process passes the test
WritesAlways(id) == TRUE

\* if (!id) in print, if (!rank) in print_event: the process that writes
Writes(id) == id = 0

\* the local code between two collective calls: the loop test of the
\* innermost call, the return from a call whose loop is over, the header
\* print writes after sync_events and the footer it writes at its end;
\* gives the open calls left and the lines written
RECURSIVE RunLocal(_, _, _)
RunLocal(stack, events, id) ==
  IF stack = <<>> THEN [stack |-> <<>>, out |-> <<>>]
  ELSE LET f == Top(stack)
       IN IF f.pc = "sync"
            THEN LET g == [f EXCEPT !.pc = "loop", !.i = 0, !.it = Keys(f, events)]
                     r == RunLocal(SetTop(stack, g), events, id)
                 IN [stack |-> r.stack,
                     out |-> (IF Writes(id) THEN <<[line |-> "header", by |-> id]>> ELSE <<>>) \o r.out]
          ELSE IF f.pc = "loop"
            THEN IF f.i < LoopBound(f, events)
                   THEN [stack |-> SetTop(stack, [f EXCEPT !.pc = "len"]), out |-> <<>>]
                   ELSE LET r == RunLocal(Pop(stack), events, id)
                        IN [stack |-> r.stack,
                            out |-> (IF f.fn = "print" /\ Writes(id)
                                       THEN <<[line |-> "footer", by |-> id]>> ELSE <<>>) \o r.out]
          ELSE [stack |-> stack, out |-> <<>>]

\* the names rank 0 may take from its iterator: the first one of the
\* std::map of roots, any of the std::unordered_map of children
NextNames(f) == IF f.path = <<>> THEN {FirstName(f.it)} ELSE f.it

\* the value rank 0 passes to the MPI_Bcast its innermost call makes next,
\* having taken name from its iterator if that call is get_name's first
BcastValue(f, events, name) ==
  CASE f.pc = "num" -> Cardinality(Keys(f, events))
    [] f.pc = "len" -> NameLength(name)
    [] f.pc = "chars" -> f.name

\* sync_events when it creates no event for a name this process lacks
SyncEventSkips(events, at) == events

\* sync_events when it replaces the event of the name it received
SyncEventOverwrites(events, at) ==
  [q \in (DOMAIN events) \cup {at} |-> IF q = at THEN NewEvent ELSE events[q]]

\* sync_events with the name it received: an event this process lacks is
\* created (event_t(0, 0), its parent is not set)
SyncEvent(events, at) ==
  IF at \in DOMAIN events THEN events ELSE Insert(events, at)

\* how far a process is with print(comm) (st), the events it had when it
\* called it (entry), and the collective calls that failed on it (errors)
Status(st, entry) == [st |-> st, entry |-> entry, errors |-> 0]

\* a process calls print(comm): rank and size, then sync_events on the roots
PrintCall(p) ==
  /\ pstat[p].st = "idle"
  /\ pstack' = [pstack EXCEPT ![p] =
                  <<Frame("print", <<>>, "sync"), Frame("sync", <<>>, "num")>>]
  /\ pstat' = [pstat EXCEPT ![p] = Status("running", prof[p].events)]
  /\ UNCHANGED <<clog, out, profVars>>

\* where a process is after the MPI_Bcast of its innermost call f returned
\* with value val (name: the one rank 0 took from its iterator)
AfterBcast(p, f, val, name) ==
  LET events == prof[p].events
      stack == pstack[p]
  IN CASE f.pc = "num" ->
            \* sync_events: num_events is known, the loop starts
            [events |-> events, st |-> "running",
             stack |-> SetTop(stack, [f EXCEPT !.n = val, !.i = 0, !.pc = "loop",
                                               !.it = Keys(f, events)])]
       [] f.pc = "len" ->
            \* get_name: the name is resized, the characters come next
            [events |-> events, st |-> "running",
             stack |-> SetTop(stack, [f EXCEPT !.pc = "chars",
                                               !.name = IF p = 0 THEN name ELSE "",
                                               !.it = IF p = 0 THEN f.it \ {name} ELSE f.it])]
       [] f.pc = "chars" ->
            \* get_name returned val: the event of that name is looked up
            \* and the call on it made
            LET at == Append(f.path, val)
                g == [f EXCEPT !.name = val, !.i = f.i + 1, !.pc = "loop"]
            IN CASE f.fn = "sync" ->
                      [events |-> SyncEvent(events, at),
                       st |-> "running",
                       stack |-> Append(SetTop(stack, g), Frame("sync", at, "num"))]
                 [] f.fn = "print" ->
                      \* *_root_events[name]: a null pointer is dereferenced
                      \* if there is no such root
                      IF at \in DOMAIN events
                        THEN [events |-> events, st |-> "running",
                              stack |-> Append(SetTop(stack, g), Frame("print_event", at, "max"))]
                        ELSE [events |-> events, st |-> "crashed", stack |-> stack]
                 [] f.fn = "print_event" ->
                      \* event.children.at(name) throws std::out_of_range
                      \* if there is no such child
                      IF at \in DOMAIN events
                        THEN [events |-> events, st |-> "running",
                              stack |-> Append(SetTop(stack, g), Frame("print_event", at, "max"))]
                        ELSE [events |-> events, st |-> "threw", stack |-> stack]

\* the process goes on from r (the result of a collective call), having
\* written lines, to its next collective call, or out of print
GoOn(p, r, lines) ==
  LET l == RunLocal(r.stack, r.events, p)
  IN /\ prof' = [prof EXCEPT ![p].events = r.events]
     /\ IF r.st = "running"
          THEN /\ pstack' = [pstack EXCEPT ![p] = l.stack]
               /\ pstat' = [pstat EXCEPT ![p].st =
                              IF l.stack = <<>> THEN "returned" ELSE "running"]
               /\ out' = out \o lines \o l.out
          ELSE /\ pstack' = [pstack EXCEPT ![p] = r.stack]
               /\ pstat' = [pstat EXCEPT ![p].st = r.st]
               /\ out' = out
     /\ UNCHANGED <<np, debug, now, hist, nops, record>>

\* a collective call of kind on which rank q is not behind the k-th call
Made(q, k, kind) == Len(clog[q]) >= k /\ clog[q][k].kind = kind

\* rank 0 makes the MPI_Bcast its innermost call is at; it returns at once
BcastRoot ==
  /\ pstat[0].st = "running"
  /\ LET f == Top(pstack[0])
     IN /\ f.pc \in {"num", "len", "chars"}
        /\ \E name \in (IF f.pc = "len" THEN NextNames(f) ELSE {f.name}) :
             LET val == BcastValue(f, prof[0].events, name)
             IN /\ clog' = [clog EXCEPT ![0] = Append(@, [kind |-> f.pc, val |-> val])]
                /\ GoOn(0, AfterBcast(0, f, val, name), <<>>)

\* another rank makes the MPI_Bcast its innermost call is at, and returns
\* from it with the value of rank 0, once rank 0 has made that call
BcastOther(p) ==
  /\ p # 0
  /\ pstat[p].st = "running"
  /\ LET f == Top(pstack[p])
         k == Len(clog[p]) + 1
     IN /\ f.pc \in {"num", "len", "chars"}
        /\ Made(0, k, f.pc)
        /\ clog' = [clog EXCEPT ![p] = Append(@, [kind |-> f.pc, val |-> 0])]
        /\ GoOn(p, AfterBcast(p, f, clog[0][k].val, ""), <<>>)

\* where a process is after the MPI_Reduce of its innermost call f: the
\* next reduction, or (after the third) the line rank 0 writes and the loop
\* over the children
AfterReduce(p, f, val) ==
  LET stack == pstack[p]
      g == CASE f.pc = "max" -> [f EXCEPT !.max = val, !.pc = "min"]
             [] f.pc = "min" -> [f EXCEPT !.min = val, !.pc = "sum"]
             [] f.pc = "sum" -> [f EXCEPT !.pc = "loop", !.i = 0,
                                          !.it = Keys(f, prof[p].events)]
  IN [events |-> prof[p].events, st |-> "running", stack |-> SetTop(stack, g)]

\* MPI_MAX, MPI_MIN, MPI_SUM over the values v[q] of the ranks in S
RECURSIVE ReduceOp(_, _, _)
ReduceOp(kind, v, S) ==
  LET q == CHOOSE x \in S : TRUE
      rest == S \ {q}
  IN IF rest = {} THEN v[q]
     ELSE LET r == ReduceOp(kind, v, rest)
          IN CASE kind = "max" -> IF v[q] > r THEN v[q] ELSE r
               [] kind = "min" -> IF v[q] < r THEN v[q] ELSE r
               [] kind = "sum" -> v[q] + r

\* the line print_event writes after its third reduction, which left sum in
\* avg: name, max, min, and the sum over size
EventLine(id, f, sum) ==
  IF f.pc = "sum" /\ Writes(id)
    THEN <<[line |-> "event", by |-> id, path |-> f.path, name |-> f.path[Len(f.path)],
            max |-> f.max, min |-> f.min, sum |-> sum, size |-> np]>>
    ELSE <<>>

\* another rank makes the MPI_Reduce its innermost call is at, passing the
\* duration of the event it is on; it returns at once, its max, min and avg
\* as they were
ReduceOther(p) ==
  /\ p # 0
  /\ pstat[p].st = "running"
  /\ LET f == Top(pstack[p])
     IN /\ f.pc \in {"max", "min", "sum"}
        /\ clog' = [clog EXCEPT ![p] =
                      Append(@, [kind |-> f.pc, val |-> prof[p].events[f.path].duration])]
        /\ LET own == prof[p].events[f.path].duration
           IN GoOn(p, AfterReduce(p, f, own), EventLine(p, f, own))

\* rank 0 makes the MPI_Reduce its innermost call is at and returns from it
\* once every rank has made that call; after the third it writes the line
\* of the event
ReduceRoot ==
  /\ pstat[0].st = "running"
  /\ LET f == Top(pstack[0])
         k == Len(clog[0]) + 1
     IN /\ f.pc \in {"max", "min", "sum"}
        /\ \A q \in Ranks \ {0} : Made(q, k, f.pc)
        /\ LET v == [q \in Ranks |->
                       IF q = 0 THEN prof[0].events[f.path].duration ELSE clog[q][k].val]
               val == ReduceOp(f.pc, v, Ranks)
               r == AfterReduce(0, f, val)
               l == RunLocal(r.stack, r.events, 0)
               line == EventLine(0, f, val)
           IN /\ clog' = [clog EXCEPT ![0] = Append(@, [kind |-> f.pc, val |-> val])]
              /\ pstack' = [pstack EXCEPT ![0] = l.stack]
              /\ pstat' = [pstat EXCEPT ![0].st =
                             IF l.stack = <<>> THEN "returned" ELSE "running"]
              /\ out' = out \o line \o l.out
              /\ UNCHANGED profVars

\* a process that has not called print(comm) yet may call start() and
\* end(). These calls touch its own timing object only, so that they are
\* taken rank after rank, and before the collective calls of the others.
Building(p) ==
  /\ pstat[p].st = "idle"
  /\ nops < MaxCalls
  /\ \A q \in Ranks : q < p => pstat[q].st # "idle"

AllInPrint == \A q \in Ranks : pstat[q].st # "idle"

\* processes with fresh timing objects
ReportInit ==
  /\ np \in 1 .. MaxRanks
  /\ debug \in BOOLEAN
  /\ prof = [p \in Ranks |-> NewTiming]
  /\ now = 0
  /\ hist = <<>>
  /\ nops = 0
  /\ record = "none"
  /\ script = <<>>
  /\ pstack = [p \in Ranks |-> <<>>]
  /\ pstat = [p \in Ranks |-> Status("idle", <<>>)]
  /\ clog = [p \in Ranks |-> <<>>]
  /\ out = <<>>
  /\ NoSegments
  /\ TopoIdle

notReport == <<timingIdle, script>>

\* each process times events with start(name) and end(), then calls
\* print(comm)
ReportNext ==
  \/ \E p \in Ranks, name \in ReportNames :
       Building(p) /\ Start(p, name, FALSE) /\ UNCHANGED <<notReport, printVars>>
  \/ \E p \in Ranks : Building(p) /\ End(p) /\ UNCHANGED <<notReport, printVars>>
  \/ Tick /\ (\E p \in Ranks : pstat[p].st = "idle") /\ UNCHANGED <<notReport, printVars>>
  \/ \E p \in Ranks :
       (\A q \in Ranks : q < p => pstat[q].st # "idle") /\ PrintCall(p) /\ UNCHANGED notReport
  \/ AllInPrint /\ BcastRoot /\ UNCHANGED notReport
  \/ \E p \in Ranks : AllInPrint /\ BcastOther(p) /\ UNCHANGED notReport
  \/ \E p \in Ranks : AllInPrint /\ ReduceOther(p) /\ UNCHANGED notReport
  \/ AllInPrint /\ ReduceRoot /\ UNCHANGED notReport

SpecReport == ReportInit /\ [][ReportNext]_vars

(***************************************************************************)
(* The report of two processes that have timed given events, as in         *)
(* TEST_CASE MPI / Test Event Printing: script holds the calls the ranks   *)
(* make on their timing objects, in the order they are taken. Time passes  *)
(* between any two of them.                                                *)
(***************************************************************************)
\* a call made by rank p
By(p, call) == [op |-> call.op, name |-> call.name, flag |-> call.flag, rank |-> p]
ToPrint == [op |-> "print", name |-> "", flag |-> FALSE]

\* rank p makes the calls of seq
Each(p, seq) == [i \in 1..Len(seq) |-> By(p, seq[i])]

\* both ranks call print(comm)
BothPrint == <<By(0, ToPrint), By(1, ToPrint)>>

\* Test Event Printing: rank 0 times b and c inside a, the other rank only c
PrintingCalls ==
  {Each(0, <<ToStart(a, FALSE), ToStart(b, FALSE), ToEnd, ToStart(c, FALSE), ToEnd, ToEnd>>)
     \o Each(1, <<ToStart(a, FALSE), ToStart(c, FALSE), ToEnd, ToEnd>>)
     \o BothPrint :
   <<a, b, c>> \in {t \in Names \X Names \X Names : t[1] # t[2] /\ t[1] # t[3] /\ t[2] # t[3]}}

\* one rank times a only, the other b inside a
NestedOnOneCalls ==
  {Each(p, <<ToStart(a, FALSE), ToEnd>>)
     \o Each(1 - p, <<ToStart(a, FALSE), ToStart(b, FALSE), ToEnd, ToEnd>>)
     \o BothPrint :
   <<p, a, b>> \in {t \in {0, 1} \X Names \X Names : t[2] # t[3]}}

\* rank 0 times a and then b, the other rank b inside a
SiblingOrNestedCalls ==
  {Each(0, <<ToStart(a, FALSE), ToEnd, ToStart(b, FALSE), ToEnd>>)
     \o Each(1, <<ToStart(a, FALSE), ToStart(b, FALSE), ToEnd, ToEnd>>)
     \o BothPrint :
   <<a, b>> \in {t \in Names \X Names : t[1] # t[2]}}

ReportCalls == PrintingCalls \cup NestedOnOneCalls \cup SiblingOrNestedCalls

RankStart ==
  /\ script # <<>>
  /\ Head(script).op = "start"
  /\ Start(Head(script).rank, Head(script).name, Head(script).flag)
  /\ script' = Tail(script)
  /\ UNCHANGED <<timingIdle, printVars>>

RankEnd ==
  /\ script # <<>>
  /\ Head(script).op = "end"
  /\ End(Head(script).rank)
  /\ script' = Tail(script)
  /\ UNCHANGED <<timingIdle, printVars>>

RankPrint ==
  /\ script # <<>>
  /\ Head(script).op = "print"
  /\ PrintCall(Head(script).rank)
  /\ script' = Tail(script)
  /\ UNCHANGED timingIdle

\* two processes with fresh timing objects and the calls they will make
PrintingInit ==
  /\ np = 2
  /\ debug \in BOOLEAN
  /\ prof = [p \in Ranks |-> NewTiming]
  /\ now = 0
  /\ hist = <<>>
  /\ nops = 0
  /\ record = "none"
  /\ script \in ReportCalls
  /\ pstack = [p \in Ranks |-> <<>>]
  /\ pstat = [p \in Ranks |-> Status("idle", <<>>)]
  /\ clog = [p \in Ranks |-> <<>>]
  /\ out = <<>>
  /\ NoSegments
  /\ TopoIdle

PrintingNext ==
  \/ RankStart
  \/ RankEnd
  \/ Tick /\ script # <<>> /\ UNCHANGED <<notReport, printVars>>
  \/ RankPrint
  \/ AllInPrint /\ BcastRoot /\ UNCHANGED notReport
  \/ \E p \in Ranks : AllInPrint /\ BcastOther(p) /\ UNCHANGED notReport
  \/ \E p \in Ranks : AllInPrint /\ ReduceOther(p) /\ UNCHANGED notReport
  \/ AllInPrint /\ ReduceRoot /\ UNCHANGED notReport

SpecPrinting == PrintingInit /\ [][PrintingNext]_vars

(***************************************************************************)
(* Runs of print(comm) to their end: the processes make their calls at     *)
(* once, and none of them stops for good while it can take a step.         *)
(***************************************************************************)
\* both ranks time b and c inside a, in different orders
CreationOrderCalls ==
  {Each(0, <<ToStart(a, FALSE), ToStart(b, FALSE), ToEnd, ToStart(c, FALSE), ToEnd, ToEnd>>)
     \o Each(1, <<ToStart(a, FALSE), ToStart(c, FALSE), ToEnd, ToStart(b, FALSE), ToEnd, ToEnd>>)
     \o BothPrint :
   <<a, b, c>> \in {t \in Names \X Names \X Names : t[1] # t[2] /\ t[1] # t[3] /\ t[2] # t[3]}}

\* the runs followed to their end: those whose first timed event is "A"
\* (the other names take every role below it)
CompletionCalls ==
  {s \in PrintingCalls \cup NestedOnOneCalls \cup CreationOrderCalls :
     s[1].name = "A"}

CompletionInit ==
  /\ np = 2
  /\ debug = FALSE
  /\ prof = [p \in Ranks |-> NewTiming]
  /\ now = 0
  /\ hist = <<>>
  /\ nops = 0
  /\ record = "none"
  /\ script \in CompletionCalls
  /\ pstack = [p \in Ranks |-> <<>>]
  /\ pstat = [p \in Ranks |-> Status("idle", <<>>)]
  /\ clog = [p \in Ranks |-> <<>>]
  /\ out = <<>>
  /\ NoSegments
  /\ TopoIdle

CompletionNext ==
  \/ RankStart
  \/ RankEnd
  \/ RankPrint
  \/ AllInPrint /\ BcastRoot /\ UNCHANGED notReport
  \/ \E p \in Ranks : AllInPrint /\ BcastOther(p) /\ UNCHANGED notReport
  \/ \E p \in Ranks : AllInPrint /\ ReduceOther(p) /\ UNCHANGED notReport
  \/ AllInPrint /\ ReduceRoot /\ UNCHANGED notReport

\* a process that can call or complete a call of the MPI library does so
FairCompletion == CompletionInit /\ [][CompletionNext]_vars /\ WF_vars(CompletionNext)

(***************************************************************************)
(* The report when a collective call fails. timing.h installs no error     *)
(* handler and reads no return code of MPI_Bcast and MPI_Reduce. With the  *)
(* handler MPI_ERRORS_ARE_FATAL, which a communicator has unless the       *)
(* program sets another, the failing call ends the program on all          *)
(* processes. With MPI_ERRORS_RETURN the call returns an error code, which *)
(* is dropped: the process goes on with the buffer it passed. That case is *)
(* followed for the MPI_Reduce calls of rank 0, whose buffers (max, min,   *)
(* avg) then hold its own duration.                                        *)
(***************************************************************************)
Failures == \E q \in Ranks : pstat[q].errors > 0

\* the collective call process p is at fails and the error handler ends the
\* program: nothing is thrown, what was written stays written
CallAborts(p) ==
  /\ pstat[p].st = "running"
  /\ \A q \in Ranks : pstat[q].errors < MaxErrors
  /\ pstat' = [q \in Ranks |->
                 [pstat[q] EXCEPT !.st = "aborted",
                                  !.errors = IF q = p THEN @ + 1 ELSE @]]
  /\ UNCHANGED <<pstack, clog, out, profVars>>

\* the MPI_Reduce rank 0 is at returns an error code, which print_event
\* drops: rank 0 goes on with its own duration in the buffer
ReduceErrorIgnored ==
  /\ pstat[0].st = "running"
  /\ \A q \in Ranks : pstat[q].errors < MaxErrors
  /\ LET f == Top(pstack[0])
     IN /\ f.pc \in {"max", "min", "sum"}
        /\ LET own == prof[0].events[f.path].duration
               r == AfterReduce(0, f, own)
               l == RunLocal(r.stack, r.events, 0)
           IN /\ clog' = [clog EXCEPT ![0] = Append(@, [kind |-> f.pc, val |-> own])]
              /\ pstack' = [pstack EXCEPT ![0] = l.stack]
              /\ pstat' = [pstat EXCEPT ![0].st =
                             IF l.stack = <<>> THEN "returned" ELSE "running",
                                        ![0].errors = @ + 1]
              /\ out' = out \o EventLine(0, f, own) \o l.out
              /\ UNCHANGED profVars

\* the processes of Test Event Printing, which make their calls at once
FaultyInit ==
  /\ PrintingInit
  /\ script \in PrintingCalls

FaultyNext ==
  \/ RankStart
  \/ RankEnd
  \/ RankPrint
  \/ AllInPrint /\ BcastRoot /\ UNCHANGED notReport
  \/ \E p \in Ranks : AllInPrint /\ BcastOther(p) /\ UNCHANGED notReport
  \/ \E p \in Ranks : AllInPrint /\ ReduceOther(p) /\ UNCHANGED notReport
  \/ AllInPrint /\ ReduceRoot /\ UNCHANGED notReport
  \/ \E p \in Ranks : AllInPrint /\ CallAborts(p) /\ UNCHANGED notReport
  \/ AllInPrint /\ ReduceErrorIgnored /\ UNCHANGED notReport

SpecFaulty == FaultyInit /\ [][FaultyNext]_vars

(***************************************************************************)
(* Properties of the segment handle (SpecSeg).                             *)
(***************************************************************************)
AllocatedWins == 1 .. (nextWin - 1)

\* C1: the local sizes that segment construction computes on the node ranks
\* 0..n-1 sum to the logical element count, and any two differ by at most 1;
\* the constructing process records its own share as its local size.
C1_PartitionSumsToLogicalSize ==
  lastOp.op = "construct" =>
    LET alloc == winAlloc[nextWin - 1]
    IN /\ DOMAIN alloc = NodeRanks
       /\ SumOver(alloc, NodeRanks) = lastOp.size
       /\ \A r1 \in NodeRanks, r2 \in NodeRanks : alloc[r1] - alloc[r2] <= 1
       /\ handles[lastOp.d]._local_size = alloc[nodeRank]
       /\ handles[lastOp.d]._size = lastOp.size

\* a construction on a full node whose element count leaves a remainder
C1_Witness ==
  /\ lastOp.op = "construct"
  /\ nodeSize = MaxNodeSize
  /\ lastOp.size % nodeSize # 0
  /\ lastOp.size > nodeSize

\* C2: once every handle has been destroyed, every window that was allocated
\* has been released exactly once (never twice, never zero times).
C2_EveryWindowReleasedExactlyOnce ==
  (\A h \in Slots : ~handles[h].live) =>
    \A w \in AllocatedWins : freed[w] = 1

TestIndices == 0 .. (handles[1]._size - 1)

\* C4: index i of the view denotes the same buffer element on every node
\* rank, and fence orders accesses: after node rank 1 zeroed the buffer and
\* all fenced, every node rank reads 0 everywhere; after node rank 1 then set
\* one index to 15 and all fenced again, every node rank reads 15 at that
\* index and 0 at all others; no REQUIRE of the test fails.
C4_FenceOrdersAccesses ==
  /\ requireOk
  /\ \A p \in NodeRanks :
       fpc[p] # "idle" =>
         \A i \in TestIndices :
           /\ Address(p, i) \in DOMAIN mem[TestWin]
           /\ \A q \in NodeRanks : Address(q, i) = Address(p, i)
           /\ fpc[p] = "check_zero" => Load(p, i) = "0.0"
           /\ (fpc[p] \in {"check_set", "done"} /\ nodeSize > 1) =>
                Load(p, i) = (IF i = setIdx THEN "15.0" ELSE "0.0")

\* a node rank other than the writer has passed the last fence on a full
\* node and reads the 15 the writer stored at a non-zero index
C4_Witness ==
  /\ nodeSize = MaxNodeSize
  /\ handles[1]._size = MaxSize
  /\ setIdx > 0
  /\ \E p \in NodeRanks :
       /\ p # 1
       /\ fpc[p] = "done"
       /\ Load(p, setIdx) = "15.0"
       /\ Load(p, 0) = "0.0"

(***************************************************************************)
(* Properties of the event profiler (SpecTiming).                          *)
(***************************************************************************)
\* the timing object after the k-th recorded call
After(k) == IF k < Len(hist) THEN hist[k + 1].before ELSE prof[0]

\* the run began with start(a); start(b); end(); end() for two names a # b
NestedRun ==
  /\ Len(hist) >= 4
  /\ hist[1].op = "start"
  /\ hist[2].op = "start"
  /\ hist[2].name # hist[1].name
  /\ hist[3].op = "end"
  /\ hist[4].op = "end"

\* ... and went on with event(a); event(b)
NestedRunLookedUp ==
  /\ NestedRun
  /\ Len(hist) = 6
  /\ hist[5].op = "event" /\ hist[5].name = hist[1].name
  /\ hist[6].op = "event" /\ hist[6].name = hist[2].name

\* C7 as stated: on a fresh profiler, after start(a); start(b); end(); end(),
\* the children of event(a) are exactly {b}, event(a) has no parent and the
\* parent of event(b) is the node event(a) returned.
C7_EventBParentIsEventA ==
  NestedRunLookedUp =>
    LET ev == prof[0].events
        A == hist[5].ret
        B == hist[6].ret
    IN /\ ChildNames(ev, A) = {hist[2].name}
       /\ ev[A].parent = NoEvent
       /\ ev[B].parent = A

\* C7 amended: on a fresh profiler, after start(a); start(b); end(); end(),
\* the children of event(a) are exactly {b}, event(a) has no parent and the
\* parent of its child b is the node event(a) returned; event(b) itself,
\* called with no event active, returns a root event it has just created,
\* with no parent, no children and zero duration.
C7_ChildBParentIsEventA ==
  NestedRunLookedUp =>
    LET ev == prof[0].events
        A == hist[5].ret
        B == hist[6].ret
    IN /\ A = <<hist[1].name>>
       /\ ChildNames(ev, A) = {hist[2].name}
       /\ ev[A].parent = NoEvent
       /\ ev[Append(A, hist[2].name)].parent = A
       /\ B = <<hist[2].name>>
       /\ B \notin DOMAIN hist[6].before.events
       /\ ev[B].parent = NoEvent
       /\ ev[B].duration = 0
       /\ ChildNames(ev, B) = {}

\* the nested run has been made and both events looked up; time passed
\* while the inner event was open
C7_Witness ==
  /\ NestedRunLookedUp
  /\ hist[3].time > hist[2].time

\* the call that started the cycle the k-th call (an end()) closes
CycleStart(k) ==
  CHOOSE j \in 1..(k - 1) :
    /\ hist[j].op = "start"
    /\ After(j).cur = hist[k].before.cur
    /\ \A i \in (j + 1)..(k - 1) :
         ~(hist[i].op = "start" /\ After(i).cur = hist[k].before.cur)

\* two start/end cycles of one root event, with nothing in between
TwoCycles ==
  /\ Len(hist) >= 4
  /\ hist[1].op = "start"
  /\ hist[2].op = "end"
  /\ hist[3].op = "start" /\ hist[3].name = hist[1].name
  /\ hist[4].op = "end"

\* C8: end() of a cycle started with accumulate=true adds the cycle's elapsed
\* time (end time minus start time) to the node's duration, so that two such
\* cycles leave the sum of both intervals; end() of a cycle started with
\* accumulate=false overwrites the duration with the cycle's elapsed time.
C8_EndAccumulatesOrOverwrites ==
  /\ \A k \in 1..Len(hist) :
       (hist[k].op = "end" /\ hist[k].before.cur # NoEvent) =>
         LET e == hist[k].before.cur
             j == CycleStart(k)
             elapsed == hist[k].time - hist[j].time
         IN After(k).events[e].duration =
              IF hist[j].flag
                THEN hist[k].before.events[e].duration + elapsed
                ELSE elapsed
  /\ (TwoCycles /\ hist[1].flag /\ hist[3].flag) =>
       After(4).events[<<hist[1].name>>].duration =
         (hist[2].time - hist[1].time) + (hist[4].time - hist[3].time)
  /\ (TwoCycles /\ ~hist[3].flag) =>
       After(4).events[<<hist[1].name>>].duration = hist[4].time - hist[3].time

\* two accumulating cycles of one event, each of them taking time
C8_Witness ==
  /\ TwoCycles
  /\ hist[1].flag /\ hist[3].flag
  /\ hist[2].time > hist[1].time
  /\ hist[4].time > hist[3].time

\* path names a direct child of the event at parent
IsChildOf(path, parent) ==
  Len(path) = Len(parent) + 1 /\ SubSeq(path, 1, Len(parent)) = parent

\* C9: reset() with an event E active sets duration to 0 and active to false
\* on every direct child of E and changes nothing else (E itself, every
\* grandchild, every other root tree, the current pointer); with no active
\* event it changes nothing at all.
C9_ResetClearsDirectChildrenOnly ==
  \A k \in 1..Len(hist) :
    hist[k].op = "reset" =>
      LET B == hist[k].before
          A == After(k)
      IN IF B.cur = NoEvent THEN A = B
         ELSE /\ A.cur = B.cur
              /\ DOMAIN A.events = DOMAIN B.events
              /\ \A q \in DOMAIN B.events :
                   A.events[q] =
                     IF IsChildOf(q, B.cur)
                       THEN [B.events[q] EXCEPT !.duration = 0, !.active = FALSE]
                       ELSE B.events[q]

\* reset() has been called with an event active whose child, grandchild and
\* itself had measured time, next to another root event with measured time
C9_Witness ==
  \E k \in 1..Len(hist) :
    /\ hist[k].op = "reset"
    /\ LET B == hist[k].before
       IN /\ B.cur # NoEvent
          /\ \E q \in DOMAIN B.events :
               /\ IsChildOf(q, B.cur)
               /\ B.events[q].duration > 0
               /\ After(k).events[q].duration = 0
               /\ \E g \in DOMAIN B.events :
                    IsChildOf(g, q) /\ After(k).events[g].duration > 0
          /\ \E r \in DOMAIN B.events :
               Len(r) = 1 /\ r # SubSeq(B.cur, 1, 1) /\ B.events[r].duration > 0

(***************************************************************************)
(* Properties of the communicators of mpi_context (SpecTopo).              *)
(***************************************************************************)
\* the processes whose mpi_context is constructed
Done == {p \in Procs : ctx[p].pc = "done"}

\* the nodes processes run on, and the lowest global rank on a node
UsedNodes == {nodeOf[q] : q \in Procs}
FirstOn(n) == CHOOSE q \in Procs : nodeOf[q] = n /\ \A r \in Procs : nodeOf[r] = n => q <= r

\* the node-rank-0 processes are exactly the members of the cross-node
\* group, which every member sees as the same group
LeadersFormInternodeGroup ==
  LET leaders == {p \in Procs : ctx[p].node_rank = 0}
      members == {p \in Procs : ctx[p].internode_comm # MPI_COMM_NULL}
  IN /\ leaders = members
     /\ leaders = {FirstOn(n) : n \in UsedNodes}
     /\ \A p \in members : ctx[p].internode_comm = members

\* C10 as stated: in the constructed topology the node-rank-0 processes are
\* exactly the members of the cross-node group, and every process with a
\* non-zero node rank has cross-node rank and size -1.
C10_OthersKeepSentinel ==
  Done = Procs =>
    /\ LeadersFormInternodeGroup
    /\ \A p \in Procs :
         ctx[p].node_rank # 0 =>
           ctx[p].internode_rank = Sentinel /\ ctx[p].internode_size = Sentinel

\* C10 amended: in the constructed topology the node-rank-0 processes are
\* exactly the members of the cross-node group; a process with a non-zero
\* node rank is no member of it (its communicator is MPI_COMM_NULL) but
\* holds the cross-node rank and size of the rank-0 process of its node
\* (the size is the number of nodes), which the two broadcasts over the
\* node group put in place of the sentinel -1.
C10_OthersHoldNodeRootRankAndSize ==
  /\ Done = Procs => LeadersFormInternodeGroup
  /\ \A p \in Done :
       /\ ctx[p].internode_size = Cardinality(UsedNodes)
       /\ ctx[p].internode_rank =
            Cardinality({n \in UsedNodes : FirstOn(n) < FirstOn(nodeOf[p])})
       /\ ctx[p].node_rank # 0 =>
            /\ ctx[p].internode_comm = MPI_COMM_NULL
            /\ ctx[p].internode_rank = ctx[FirstOn(nodeOf[p])].internode_rank
            /\ ctx[p].internode_size = ctx[FirstOn(nodeOf[p])].internode_size
            /\ ctx[p].internode_rank # Sentinel
            /\ ctx[p].internode_size # Sentinel

\* every context is constructed, on two nodes, and a process with non-zero
\* node rank sits on the node whose rank-0 process has cross-node rank 1
C10_Witness ==
  /\ Done = Procs
  /\ \E p \in Procs :
       /\ ctx[p].node_rank # 0
       /\ ctx[FirstOn(nodeOf[p])].internode_rank = 1
       /\ ctx[p].internode_rank = 1
       /\ ctx[p].internode_size = 2

(***************************************************************************)
(* Properties of the report over a communicator (SpecReport).              *)
(***************************************************************************)
\* rank p waits in a collective call for a call that is never made: in an
\* MPI_Bcast whose rank 0 is out of print(comm), or (rank 0) in an MPI_Reduce
\* for a rank that is out of print(comm)
Gone(q) == pstat[q].st \in {"returned", "threw", "crashed"}
BlockedForever(p) ==
  /\ pstat[p].st = "running"
  /\ LET f == Top(pstack[p])
         k == Len(clog[p]) + 1
     IN IF p # 0
          THEN f.pc \in {"num", "len", "chars"} /\ Gone(0) /\ Len(clog[0]) < k
          ELSE /\ f.pc \in {"max", "min", "sum"}
               /\ \E q \in Ranks \ {0} : Gone(q) /\ Len(clog[q]) < k

\* two processes call print(comm), one with only a root event a, the other
\* with a and an event b nested under a
DivergentTrees ==
  /\ np = 2
  /\ AllInPrint
  /\ \E a \in Names, b \in Names, p \in Ranks, q \in Ranks :
       /\ a # b /\ p # q
       /\ DOMAIN pstat[p].entry = {<<a>>}
       /\ DOMAIN pstat[q].entry = {<<a>>, <<a, b>>}

\* C5: with one process holding only root A and another A with B nested
\* under it, print(group) completes on every process (none waits forever,
\* none fails) and the report is that of the events' durations, also when
\* rank 0 is the process that lacks B; afterwards the tree of rank 0 holds a
\* zero-duration stand-in for every branch it lacked.
C5_DivergentTreesReportCompletes ==
  DivergentTrees =>
    /\ \A p \in Ranks :
         ~BlockedForever(p) /\ pstat[p].st \notin {"threw", "crashed"}
    /\ \A i \in 1..Len(out) :
         out[i].line = "event" =>
           /\ \A p \in Ranks : out[i].path \in DOMAIN pstat[p].entry =>
                /\ out[i].max >= pstat[p].entry[out[i].path].duration
                /\ out[i].min <= pstat[p].entry[out[i].path].duration
    /\ pstat[0].st = "returned" =>
         \A p \in Ranks : \A path \in DOMAIN pstat[p].entry :
           /\ path \in DOMAIN prof[0].events
           /\ path \notin DOMAIN pstat[0].entry => prof[0].events[path].duration = 0

\* C6: after print(group) has completed on a process other than rank 0, its
\* tree holds every node (path of names) of rank 0's tree; each node created
\* for that has zero duration and is inactive; every node it had before is
\* as it was (duration, active flag) and keeps its children.
C6_SyncCreatesStandIns ==
  \A p \in Ranks \ {0} :
    pstat[p].st = "returned" =>
      LET before == pstat[p].entry
          after == prof[p].events
      IN /\ DOMAIN prof[0].events \subseteq DOMAIN after
         /\ DOMAIN after = DOMAIN before \cup DOMAIN prof[0].events
         /\ \A q \in DOMAIN after \ DOMAIN before :
              after[q].duration = 0 /\ ~after[q].active
         /\ \A q \in DOMAIN before :
              /\ after[q].duration = before[q].duration
              /\ after[q].active = before[q].active
              /\ \A n \in Names :
                   Append(q, n) \in DOMAIN before => Append(q, n) \in DOMAIN after

\* print(comm) has completed on a rank other than 0 that had an event with
\* measured time and lacked an event of rank 0
C6_Witness ==
  \E p \in Ranks \ {0} :
    /\ pstat[p].st = "returned"
    /\ pstat[0].st = "returned"
    /\ \E q \in DOMAIN pstat[p].entry : pstat[p].entry[q].duration > 0
    /\ \E q \in DOMAIN prof[p].events :
         q \notin DOMAIN pstat[p].entry /\ Len(q) = 2

(***************************************************************************)
(* Properties of the device group (SpecDevices).                           *)
(***************************************************************************)
\* the node rank of p: the processes of its node with a lower global rank
NodeRankOf(p) == Cardinality({q \in Procs : nodeOf[q] = nodeOf[p] /\ q < p})

\* the request process p made last
LastRequest(p) == requests[dev[p].req]

\* C11: when a device-group request (countPerNode, countTotal) succeeds on a
\* process, that process is a member of the device group exactly if its node
\* rank is below countPerNode; a member's device rank is the number of
\* members with a lower global rank, its device size is the number of
\* members and equals countTotal; any other process has device rank and
\* size -1.
C11_DeviceGroupOfSuccessfulRequest ==
  \A p \in Procs :
    dev[p].pc = "returned" =>
      LET r == LastRequest(p)
          members == {q \in Procs : NodeRankOf(q) < r.devCount_per_node}
      IN IF p \in members
           THEN /\ dev[p].devices_comm = members
                /\ dev[p].devices_rank = Cardinality({q \in members : q < p})
                /\ dev[p].devices_size = Cardinality(members)
                /\ dev[p].devices_size = r.devCount_total
           ELSE /\ dev[p].devices_comm = MPI_COMM_NULL
                /\ dev[p].devices_rank = Sentinel
                /\ dev[p].devices_size = Sentinel

\* a request has succeeded on every process, with two members on different
\* nodes (the second with device rank 1 and node rank 0) and a process that
\* is no member
C11_Witness ==
  /\ \A p \in Procs : dev[p].pc = "returned" /\ dev[p].req = 1
  /\ \E p \in Procs, q \in Procs :
       /\ dev[p].devices_rank = 1 /\ ctx[p].node_rank = 0 /\ dev[p].devices_size = 2
       /\ dev[q].devices_rank = Sentinel /\ dev[q].devices_size = Sentinel

\* C12: a device-group request whose declared total differs from the number
\* of participating processes fails on the participants with a communicator
\* error, and leaves what was built before as it was: the node group, the
\* cross-node group and the device group of an earlier request with its
\* rank and size.
C12_FailedRequestChangesNothing ==
  \A p \in Procs :
    /\ (dev[p].pc \in {"returned", "threw"} /\ dev[p].req >= 1) =>
         LET r == LastRequest(p)
             members == {q \in Procs : NodeRankOf(q) < r.devCount_per_node}
         IN (p \in members /\ Cardinality(members) # r.devCount_total) =>
              dev[p].pc = "threw"
    /\ dev[p].pc = "threw" =>
         /\ ctx[p] = BuiltContext(p)
         /\ dev[p].req >= 2 =>
              /\ dev[p].devices_comm = dev[p].before.devices_comm
              /\ dev[p].devices_rank = dev[p].before.devices_rank
              /\ dev[p].devices_size = dev[p].before.devices_size

(***************************************************************************)
(* Properties of start, end, event and add (SpecTiming).                   *)
(***************************************************************************)
\* an event named name is active in timing object T
ActiveNamed(T, name) ==
  \E q \in DOMAIN T.events : q[Len(q)] = name /\ T.events[q].active

\* the calls of start recorded so far
StartCallsMade == {k \in 1..Len(hist) : hist[k].op \in {"start", "start_throws"}}

C14_StartCreatesOrReuses ==
  \A k \in 1..Len(hist) :
    hist[k].op = "start" =>
      LET B == hist[k].before
          A == After(k)
          at == IF B.cur = NoEvent THEN <<hist[k].name>> ELSE Append(B.cur, hist[k].name)
      IN /\ A.cur = at
         /\ DOMAIN A.events = DOMAIN B.events \cup {at}
         /\ A.events[at].active
         /\ A.events[at].accumulate = {hist[k].flag}
         /\ A.events[at].start = hist[k].time
         /\ A.events[at].parent = B.cur
         /\ A.events[at].duration = IF at \in DOMAIN B.events THEN B.events[at].duration ELSE 0
         /\ at \notin DOMAIN B.events => ChildNames(A.events, at) = {}
         /\ \A q \in DOMAIN B.events : q # at => A.events[q] = B.events[q]

\* start has made a root and a child, and has been called again on a root and
\* on a child that had measured time and a child of their own
C14_Witness ==
  \E i \in 1..Len(hist), j \in 1..Len(hist) :
    /\ hist[i].op = "start" /\ hist[i].before.cur = NoEvent
    /\ <<hist[i].name>> \in DOMAIN hist[i].before.events
    /\ hist[i].before.events[<<hist[i].name>>].duration > 0
    /\ ChildNames(hist[i].before.events, <<hist[i].name>>) # {}
    /\ hist[j].op = "start" /\ hist[j].before.cur # NoEvent
    /\ LET at == Append(hist[j].before.cur, hist[j].name)
       IN /\ at \in DOMAIN hist[j].before.events
          /\ hist[j].before.events[at].duration > 0
          /\ ChildNames(hist[j].before.events, at) # {}
          /\ After(j).events[at].duration > 0

\* the enclosing event of the event at path (none for a root event)
Enclosing(path) == SubSeq(path, 1, Len(path) - 1)

\* calls i .. i + 2k - 1 are k successful starts from an idle profiler
\* followed by k ends
StartsThenEnds(i, k) ==
  /\ i + 2 * k - 1 <= Len(hist)
  /\ hist[i].before.cur = NoEvent
  /\ \A j \in i..(i + k - 1) : hist[j].op = "start"
  /\ \A j \in (i + k)..(i + 2 * k - 1) : hist[j].op = "end"

\* C15: end() with no active event changes nothing; otherwise it marks the
\* current event inactive and makes the enclosing event current (none for a
\* root event), leaving the tree shape and every other active flag alone.
\* So k successful starts from an idle profiler followed by k ends leave no
\* current event.
C15_EndReturnsToParent ==
  /\ \A k \in 1..Len(hist) :
       hist[k].op = "end" =>
         LET B == hist[k].before
             A == After(k)
         IN IF B.cur = NoEvent
              THEN A = B
              ELSE /\ A.cur = Enclosing(B.cur)
                   /\ A.cur = B.events[B.cur].parent
                   /\ ~A.events[B.cur].active
                   /\ DOMAIN A.events = DOMAIN B.events
                   /\ \A q \in DOMAIN B.events :
                        q # B.cur => A.events[q] = B.events[q]
  /\ \A i \in 1..Len(hist), k \in 1..Len(hist) :
       StartsThenEnds(i, k) => After(i + 2 * k - 1).cur = NoEvent

\* three nested starts, three ends and one more end, which found no current
\* event and changed nothing
C15_Witness ==
  \E i \in 1..Len(hist) :
    /\ StartsThenEnds(i, 3)
    /\ i + 6 <= Len(hist)
    /\ hist[i + 6].op = "end"
    /\ hist[i + 6].before.cur = NoEvent
    /\ After(i + 6) = hist[i + 6].before
    /\ Len(hist[i + 3].before.cur) = 3
    /\ Len(After(i + 3).cur) = 2

\* the calls of event(name) made so far
EventCallsMade == {k \in 1..Len(hist) : hist[k].op = "event"}

AddCallsMade == {k \in 1..Len(hist) : hist[k].op = "add"}

\* C17: add(name) creates the root entry name with zero duration, inactive,
\* without parent and children when there is none, also while another event
\* is active, and changes nothing else; when the root entry exists the call
\* leaves the whole profiler state unchanged.
C17_AddIsIdempotent ==
  \A k \in AddCallsMade :
    LET B == hist[k].before
        A == After(k)
        at == <<hist[k].name>>
    IN IF at \in DOMAIN B.events
         THEN A = B
         ELSE /\ A.cur = B.cur
              /\ DOMAIN A.events = DOMAIN B.events \cup {at}
              /\ \A q \in DOMAIN B.events : A.events[q] = B.events[q]
              /\ A.events[at].duration = 0
              /\ ~A.events[at].active
              /\ A.events[at].parent = NoEvent
              /\ ChildNames(A.events, at) = {}

\* add has found a root entry with measured time, and, while another event was
\* active, has made a root entry and has been repeated on it
C17_Witness ==
  \E i \in AddCallsMade, j \in AddCallsMade :
    /\ <<hist[i].name>> \in DOMAIN hist[i].before.events
    /\ hist[i].before.events[<<hist[i].name>>].duration > 0
    /\ After(i) = hist[i].before
    /\ hist[j].before.cur # NoEvent
    /\ <<hist[j].name>> \notin DOMAIN hist[j].before.events
    /\ <<hist[j].name>> \in DOMAIN After(j).events
    /\ (j + 1) \in AddCallsMade
    /\ hist[j + 1].name = hist[j].name
    /\ After(j + 1) = After(j)
    /\ After(j).events[After(j).cur].active

\* the duration process q measured for the event at path before it called
\* print(comm): 0 if it had no such event and holds a stand-in at most
MeasuredBy(q, path) ==
  IF path \in DOMAIN pstat[q].entry THEN pstat[q].entry[path].duration ELSE 0

\* the lines of events in the report rank 0 has written so far
EventLines == {i \in 1..Len(out) : out[i].line = "event"}

\* C18: for every node the report of rank 0 gives the maximum, the minimum
\* and the sum over the group size of the durations the processes of the
\* group measured for that node, a process that had no such node counting 0.
C18_ReportedValuesAreGroupStatistics ==
  \A i \in EventLines :
    LET v == [q \in Ranks |-> MeasuredBy(q, out[i].path)]
    IN /\ out[i].max = ReduceOp("max", v, Ranks)
       /\ out[i].min = ReduceOp("min", v, Ranks)
       /\ out[i].sum = ReduceOp("sum", v, Ranks)
       /\ out[i].size = np

\* the kinds of the collective calls process p has made in print(comm)
CallKinds(p) == [k \in 1..Len(clog[p]) |-> clog[p][k].kind]

\* C19: every line of the report (header, event lines, footer) is written by
\* rank 0 of the group; the other processes write nothing, and make the same
\* broadcasts and reductions as rank 0, in the same order: all of them once
\* they and rank 0 have returned from print(comm).
C19_OnlyRankZeroWrites ==
  /\ \A i \in 1..Len(out) : out[i].by = 0
  /\ \A p \in Ranks \ {0} :
       /\ \A k \in 1..Len(clog[p]) :
            k <= Len(clog[0]) => clog[p][k].kind = clog[0][k].kind
       /\ pstat[p].st = "returned" /\ pstat[0].st = "returned" =>
            CallKinds(p) = CallKinds(0)

\* two processes have returned from a report of at least two events: header,
\* event lines and footer are there, and the other process made broadcasts
\* and reductions
C19_Witness ==
  /\ np = 2
  /\ \A p \in Ranks : pstat[p].st = "returned"
  /\ out[1].line = "header"
  /\ out[Len(out)].line = "footer"
  /\ Cardinality(EventLines) >= 2
  /\ \E k \in 1..Len(clog[1]) : clog[1][k].kind = "chars"
  /\ \E k \in 1..Len(clog[1]) : clog[1][k].kind = "sum"
  /\ Len(clog[1]) = Len(clog[0])

\* the report is whole: header first, footer last, and between them one line
\* for every event of rank 0
WholeReport ==
  /\ out # <<>>
  /\ out[1].line = "header"
  /\ out[Len(out)].line = "footer"
  /\ {out[i].path : i \in EventLines} = DOMAIN prof[0].events

\* C20: if a broadcast or reduce call fails during print(group), the process
\* on which it failed leaves print with a communicator error, and rank 0 has
\* written either the whole report or nothing.
C20_FailureThrowsAndNoPartialReport ==
  /\ \A p \in Ranks :
       pstat[p].errors > 0 => pstat[p].st = "mpi_communication_error"
  /\ Failures /\ pstat[0].st # "running" => out = <<>> \/ WholeReport

(***************************************************************************)
(* More properties of the segment handle (SpecSeg).                        *)
(***************************************************************************)
\* C25: for logical size L and node size n, node rank r gets floor(L/n)+1
\* elements if r < (L mod n) and floor(L/n) otherwise, so that the local
\* size does not grow with the node rank.
C25_RemainderToLowestRanks ==
  lastOp.op = "construct" =>
    LET L == lastOp.size
        n == nodeSize
        alloc == winAlloc[handles[lastOp.d]._win]
    IN /\ \A r \in NodeRanks :
            alloc[r] = IF r < L % n THEN (L \div n) + 1 ELSE L \div n
       /\ \A r \in NodeRanks, s \in NodeRanks : r <= s => alloc[r] >= alloc[s]
       /\ handles[lastOp.d]._local_size =
            (IF nodeRank < L % n THEN (L \div n) + 1 ELSE L \div n)

\* a construction on the last rank of a full node with a remainder of one
\* element, which goes to node rank 0
C25_Witness ==
  /\ lastOp.op = "construct"
  /\ nodeSize = MaxNodeSize
  /\ nodeRank = nodeSize - 1
  /\ lastOp.size % nodeSize = 1
  /\ lastOp.size > nodeSize
  /\ handles[lastOp.d]._local_size = lastOp.size \div nodeSize
  /\ winAlloc[handles[lastOp.d]._win][0] = (lastOp.size \div nodeSize) + 1

(***************************************************************************)
(* More properties of the profiler's calls (SpecTiming).                   *)
(***************************************************************************)
\* the events named name that are active in T
ActiveAs(T, name) ==
  {q \in DOMAIN T.events : T.events[q].active /\ q[Len(q)] = name}

\* the calls of start(name) made while an event named name was active
StartsOfActive ==
  {k \in StartCallsMade : ActiveAs(hist[k].before, hist[k].name) # {}}

\* the end() calls after call k that found the event at path q current
EndsOf(k, q) ==
  {j \in (k + 1)..Len(hist) : hist[j].op = "end" /\ hist[j].before.cur = q}

\* the time end() call j measured for the event at path q, which it adds to
\* the duration of an accumulating event
Measured(j, q) ==
  After(j).events[q].duration
    - (IF hist[j].before.events[q].accumulate = {TRUE}
         THEN hist[j].before.events[q].duration ELSE 0)

\* C26 as stated: in a release build start(name) on an event that is active
\* does not fail and gives that event the start timestamp of the later
\* start, from which its end measures the duration.
C26_LastStartWins ==
  ~debug =>
    \A k \in StartsOfActive : \A q \in ActiveAs(hist[k].before, hist[k].name) :
      /\ hist[k].op = "start"
      /\ After(k).events[q].start = hist[k].time
      /\ \A j \in EndsOf(k, q) :
           (\A i \in EndsOf(k, q) : j <= i) => Measured(j, q) = hist[j].time - hist[k].time

\* C26: in a release build start(name) while an event named name is active
\* does not fail and does not start that event again: it creates or reuses
\* the child name of the current event, which becomes current with the later
\* start timestamp; the active event keeps its start timestamp, from which
\* its own end measures the duration.
C26_StartOfActiveNests ==
  ~debug =>
    \A k \in StartsOfActive : \A q \in ActiveAs(hist[k].before, hist[k].name) :
      /\ hist[k].op = "start"
      /\ After(k).events[q] = hist[k].before.events[q]
      /\ After(k).cur = Append(hist[k].before.cur, hist[k].name)
      /\ After(k).cur # q
      /\ After(k).events[After(k).cur].start = hist[k].time
      /\ \A j \in EndsOf(k, q) :
           (\A i \in EndsOf(k, q) : j <= i) =>
             Measured(j, q) = hist[j].time - hist[k].before.events[q].start

\* in a release build an event was started, its name was started again
\* later, and the event was ended after that
C26_Witness ==
  /\ ~debug
  /\ \E k \in StartsOfActive : \E q \in ActiveAs(hist[k].before, hist[k].name) :
       /\ hist[k].time > hist[k].before.events[q].start
       /\ q = hist[k].before.cur
       /\ \E j \in EndsOf(k, q) : hist[j].time > hist[k].time

\* path q is the current event cur or one of its ancestors
CurrentOrAncestor(q, cur) ==
  /\ Len(q) >= 1
  /\ Len(q) <= Len(cur)
  /\ SubSeq(cur, 1, Len(q)) = q

\* C29: in every profiler state the active events are exactly the current
\* event and its ancestors; with no current event no event is active.
C29_ActiveAreCurrentAndAncestors ==
  \A p \in DOMAIN prof :
    /\ prof[p].cur # NoEvent => prof[p].cur \in DOMAIN prof[p].events
    /\ \A q \in DOMAIN prof[p].events :
         prof[p].events[q].active <=> CurrentOrAncestor(q, prof[p].cur)

\* a child event is current while an event that was started and ended
\* before is stored next to the active ones
C29_Witness ==
  \E p \in DOMAIN prof :
    /\ Len(prof[p].cur) = 2
    /\ \E q \in DOMAIN prof[p].events :
         /\ ~prof[p].events[q].active
         /\ nops >= 4

\* C30: in every profiler state every event stored in the children map of
\* an event has that event as its parent, and every root event has parent
\* none, also after print(comm) has inserted the events a rank did not have.
C30_ParentIsOwner ==
  \A p \in DOMAIN prof : \A q \in DOMAIN prof[p].events :
    prof[p].events[q].parent = Enclosing(q)

(***************************************************************************)
(* Fence as a collective call (SpecCallers).                               *)
(***************************************************************************)
\* the number of fence calls of node rank p that have returned
FencesReturned(p) ==
  IF fpc[p] = "in_fence" THEN fenceCalls[p] - 1 ELSE fenceCalls[p]

\* C22: fence call number k of a node rank returns only after every node
\* rank has issued its fence call number k; when a node rank stops after
\* fewer fence calls than another has issued, the other one stays inside its
\* extra call, and no node rank is in a failed state.
C22_FenceIsCollective ==
  /\ \A p \in NodeRanks, q \in NodeRanks : fenceCalls[q] >= FencesReturned(p)
  /\ \A p \in NodeRanks, q \in NodeRanks :
       (fpc[q] = "done" /\ fenceCalls[q] < fenceCalls[p]) =>
         /\ fpc[p] = "in_fence"
         /\ fenceCalls[p] = fenceCalls[q] + 1
         /\ ~ENABLED CallerReturn(p)
  /\ \A p \in NodeRanks : fpc[p] \in {"idle", "fence", "in_fence", "done"}

\* on a node of three, one node rank has stopped after one fence call while
\* another is inside its second, and the third has returned from its first
C22_Witness ==
  /\ nodeSize = 3
  /\ \E p \in NodeRanks, q \in NodeRanks, r \in NodeRanks :
       /\ fpc[q] = "done" /\ fenceCalls[q] = 1
       /\ fpc[p] = "in_fence" /\ fenceCalls[p] = 2
       /\ r # p /\ r # q /\ FencesReturned(r) = 1

(***************************************************************************)
(* The context singleton and the construction of segments (SpecContext).   *)
(***************************************************************************)
\* process p has called context() at least once
Accessed(p) == app[p].reads > 0 \/ app[p].pc \in {"context", "shared_object"}

\* C21: in each process the context is built exactly once, by the first
\* call of context(); every call observes the same groups, ranks and sizes,
\* which the instance still holds after segments were constructed from it.
C21_ContextBuiltOnceAndReadOnly ==
  \A p \in Procs :
    /\ app[p].builds = (IF Accessed(p) THEN 1 ELSE 0)
    /\ Cardinality(app[p].seen) <= 1
    /\ app[p].reads > 0 => app[p].seen = {View(ctx[p])}
    /\ app[p]._cntx \subseteq app[p].seen

\* a process on a node of two has read the context twice and constructed a
\* segment from it
C21_Witness ==
  \E p \in Procs :
    /\ app[p].reads = MaxAccess + 1
    /\ app[p].segs = 1
    /\ app[p].pc = "run"
    /\ Cardinality(ctx[p].node_comm) >= 2
    /\ \E q \in Procs : ctx[q].pc = "done" /\ ctx[q].node_comm # ctx[p].node_comm

\* C23: no process returns from the construction of a segment before every
\* process of its node group has completed the window allocation and the
\* pointer query.
C23_BarrierEndsConstruction ==
  \A p \in Procs :
    app[p].segs > 0 =>
      \A q \in ctx[p].node_comm :
        /\ app[q]._win # MPI_WIN_NULL
        /\ app[q]._ref # "nullptr"

\* on a node of more than one process, one process has returned from the
\* constructor while another is still inside the barrier
C23_Witness ==
  \E p \in Procs, q \in Procs :
    /\ p # q
    /\ q \in ctx[p].node_comm
    /\ app[p].segs > 0
    /\ app[q].pc = "MPI_Barrier"

(***************************************************************************)
(* The standalone cross-node split (SpecSplit).                            *)
(***************************************************************************)
\* process p passed its rank in the global group and the node rank
\* setup_intranode_communicator gives it, as the test does
AsTheTest(p) ==
  /\ ctx[p].pc # "start"
  /\ ctx[p].global_rank = p
  /\ ctx[p].intranode_rank = RankIn(SplitTypeShared(p), p)

Returned(p) == ctx[p].pc \in {"done", "threw"}

\* C24: called as the test calls it, setup_internode_communicator gives the
\* processes with node rank 0 the cross-node ranks 0..size-1 in the order of
\* their global ranks, with size the number of nodes (rank 0 and size 1 on
\* a single node), and every other process rank -1 and size -1.
C24_StandaloneCrossNodeSplit ==
  (\A q \in Procs : AsTheTest(q)) =>
    \A p \in Procs : Returned(p) =>
      /\ ctx[p].pc = "done"
      /\ IF ctx[p].intranode_rank = 0
           THEN /\ ctx[p].internode_size = Cardinality({nodeOf[q] : q \in Procs})
                /\ ctx[p].internode_rank \in 0 .. (ctx[p].internode_size - 1)
                /\ ctx[p].internode_rank =
                     Cardinality({q \in Procs : ctx[q].intranode_rank = 0 /\ q < p})
                /\ Cardinality({nodeOf[q] : q \in Procs}) = 1 =>
                     ctx[p].internode_rank = 0 /\ ctx[p].internode_size = 1
           ELSE /\ ctx[p].internode_rank = -1
                /\ ctx[p].internode_size = -1

\* three processes on two nodes called as the test does and have returned:
\* the node of two has a process outside the cross-node group
C24_Witness ==
  /\ global_size = 3
  /\ Cardinality({nodeOf[q] : q \in Procs}) = 2
  /\ \A q \in Procs : AsTheTest(q) /\ ctx[q].pc = "done"
  /\ \E p \in Procs : ctx[p].internode_rank = 1
  /\ \E p \in Procs : ctx[p].internode_rank = -1

\* C27 as stated: the root-rank-mismatch error is raised whenever the
\* cross-node rank of the process with global rank 0 is not 0 after the
\* split, whatever its node rank, and not when that rank is 0.
C27_MismatchWhateverNodeRank ==
  \A p \in Procs :
    (Returned(p) /\ ctx[p].global_rank = 0) =>
      (ctx[p].pc = "threw" <=> ctx[p].internode_rank # 0)

\* C27: the root-rank-mismatch error is raised exactly when the process
\* with global rank 0 has node rank 0 and its cross-node rank after the
\* split is not 0; with another node rank it gets rank -1 and no error.
C27_MismatchCheckedOnNodeRankZero ==
  \A p \in Procs :
    Returned(p) =>
      /\ ctx[p].pc = "threw" <=>
           /\ ctx[p].global_rank = 0
           /\ ctx[p].intranode_rank = 0
           /\ ctx[p].internode_rank # 0
      /\ (ctx[p].global_rank = 0 /\ ctx[p].intranode_rank # 0) =>
           ctx[p].internode_rank = -1 /\ ctx[p].pc = "done"

\* one caller with global rank 0 and node rank 0 got a cross-node rank
\* other than 0 and failed, another with global rank 0 and a node rank
\* other than 0 returned
C27_Witness ==
  /\ \E p \in Procs :
       /\ ctx[p].pc = "threw"
       /\ ctx[p].internode_rank # 0
  /\ \E q \in Procs :
       /\ ctx[q].pc = "done"
       /\ ctx[q].global_rank = 0
       /\ ctx[q].intranode_rank # 0

(***************************************************************************)
(* Failing calls during the construction of the context (SpecFailing).     *)
(***************************************************************************)
\* C28: when a split of the construction fails on a process, the
\* construction fails with a communicator error on that process and does
\* not go on with the failed result.
C28_SplitFailureThrows ==
  \A p \in Procs : ctx[p].failed # "none" => ctx[p].pc = "threw"

(***************************************************************************)
(* The debug check of start (SpecTiming).                                  *)
(***************************************************************************)
\* the root event named name exists in T and is active
RootActive(T, name) == <<name>> \in DOMAIN T.events /\ T.events[<<name>>].active

\* the calls of start made so far, rejected or not
AllStarts == {k \in 1..Len(hist) : hist[k].op \in {"start", "start_throws"}}

\* C33: in debug mode start(name) is rejected with wrong_event_state exactly
\* when the root event named name exists and is active, whatever the current
\* event and its depth; a rejected call changes nothing, and an accepted one
\* inside an event creates or reuses the child name of the current event,
\* also when the current event has that name.
C33_DebugCheckLooksAtRootOnly ==
  debug =>
    \A k \in AllStarts :
      LET B == hist[k].before
          name == hist[k].name
      IN /\ hist[k].op = "start_throws" <=> RootActive(B, name)
         /\ hist[k].op = "start_throws" => After(k) = B
         /\ (hist[k].op = "start" /\ B.cur # NoEvent) =>
              /\ After(k).cur = Append(B.cur, name)
              /\ After(k).events[After(k).cur].active
              /\ After(k).events[After(k).cur].parent = B.cur

\* start(a); start(b); start(a) was rejected although b had no child a, and
\* the start(b) that followed was accepted and made the child b of b current
C33_Witness ==
  /\ debug
  /\ \E k \in AllStarts, j \in AllStarts :
       /\ Len(hist[k].before.cur) = 2
       /\ hist[k].name = hist[k].before.cur[1]
       /\ hist[k].op = "start_throws"
       /\ ~Exists(hist[k].before, Append(hist[k].before.cur, hist[k].name))
       /\ j = k + 1
       /\ hist[j].name = hist[j].before.cur[2]
       /\ hist[j].op = "start"
       /\ After(j).cur = Append(hist[j].before.cur, hist[j].name)
       /\ Len(After(j).cur) = 3

(***************************************************************************)
(* The outcome of a device-group request on its callers (SpecDevices).     *)
(***************************************************************************)
\* process p has come back from its latest request, normally or not
Answered(p) == dev[p].req >= 1 /\ dev[p].pc \in {"returned", "threw"}

\* p passed color 0 in its latest request
JoinedLast(p) == NodeRankOf(p) < LastRequest(p).devCount_per_node

\* C32 as stated: a device-group request has the same outcome on all
\* processes of the global group: if it fails with the size mismatch on one
\* it fails on all, also on those outside the device group, none of which
\* returns normally with rank and size -1.
C32_SameOutcomeEverywhere ==
  \A p \in Procs, q \in Procs :
    (Answered(p) /\ Answered(q) /\ dev[p].req = dev[q].req) => dev[p].pc = dev[q].pc

\* C32: a device-group request has the same outcome on all members of the
\* device group: it fails with the size mismatch on every member or on
\* none. A process outside the device group never fails: it returns with
\* rank and size -1, also from a request that failed on the members.
C32_SameOutcomeOnMembers ==
  \A p \in Procs, q \in Procs :
    (Answered(p) /\ Answered(q) /\ dev[p].req = dev[q].req) =>
      /\ (JoinedLast(p) /\ JoinedLast(q)) => dev[p].pc = dev[q].pc
      /\ ~JoinedLast(q) =>
           /\ dev[q].pc = "returned"
           /\ dev[q].devices_rank = Sentinel
           /\ dev[q].devices_size = Sentinel

\* a request has failed on its two members and returned on a third process
C32_Witness ==
  \E p \in Procs, q \in Procs, r \in Procs :
    /\ p # q
    /\ Answered(p) /\ Answered(q) /\ Answered(r)
    /\ dev[p].req = dev[r].req /\ dev[q].req = dev[r].req
    /\ JoinedLast(p) /\ dev[p].pc = "threw"
    /\ JoinedLast(q) /\ dev[q].pc = "threw"
    /\ ~JoinedLast(r) /\ dev[r].pc = "returned" /\ dev[r].devices_rank = Sentinel

(***************************************************************************)
(* Completion of the report when rank 0 has every event (FairCompletion).  *)
(***************************************************************************)
\* every process has called print(comm), and the tree rank 0 called it with
\* holds every event of the tree of every other process
AuthorityHasAll ==
  /\ AllInPrint
  /\ \A p \in Ranks : DOMAIN pstat[p].entry \subseteq DOMAIN pstat[0].entry

\* print(comm) has returned on every process, and every process has made
\* the collective calls rank 0 made: the same kinds in the same order
AllReturnedAlike ==
  \A p \in Ranks :
    /\ pstat[p].st = "returned"
    /\ CallKinds(p) = CallKinds(0)

\* C31: when the tree of rank 0 holds every event of the trees of the other
\* processes, print(comm) returns on every process and all of them have made
\* the same sequence of broadcasts and reductions, whichever order rank 0
\* takes the children of an event in.
C31_SupersetReportTerminates == AuthorityHasAll ~> AllReturnedAlike

\* two processes have returned from print(comm): rank 0 called it with two
\* events, the other process with one of them only
C31_Witness ==
  /\ np = 2
  /\ AuthorityHasAll
  /\ AllReturnedAlike
  /\ Cardinality(DOMAIN pstat[0].entry) = 2
  /\ Cardinality(DOMAIN pstat[1].entry) = 1
  /\ \E k \in 1..Len(clog[1]) : clog[1][k].kind = "sum"

====
